---- MODULE Spec2Model ----
(***************************************************************************)
(* A model of the incremental HTTP/1.x parser of src/src/parser.rs.        *)
(*                                                                         *)
(* Bytes are the naturals 0..255. A parser context is a record with the    *)
(* fields of struct HttpParser. One call of execute is one action: the     *)
(* operator execute runs the whole byte loop of the call (the retry loop,  *)
(* the callbacks, the leftover-mark flush) and yields the parser after the *)
(* call, the value returned and the callbacks made, in order.              *)
(***************************************************************************)
EXTENDS Integers, Sequences, FiniteSets, TLC

VARIABLES
    parser,     \* the HttpParser context
    created,    \* the parser as HttpParser::new returned it (fixed per behaviour)
    sink,       \* how the embedder's callbacks answer (fixed per behaviour)
    checked,    \* TRUE: the build panics on arithmetic overflow (debug profile)
    input,      \* the bytes the transport will deliver (fixed per behaviour)
    pos,        \* how many bytes of input execute has consumed so far
    log,        \* callbacks received so far, slices of one span concatenated
    before,     \* the parser as it was when the last operation started
    op,         \* the last operation: "new", "execute", "eof", "pause", "resume"
    events,     \* the callbacks made by the last operation, one entry per call
    ret,        \* the value the last operation returned (None: it returned none)
    lastlen,    \* the length of the chunk given to the last operation
    eofs,       \* number of zero-length execute calls that reached the sink
    panicked,   \* TRUE once an operation has panicked
    unpaused    \* the same parse with every pause, resume and call made
                \* while paused left out: its parser, log, pos and last ret,
                \* and whether a resume has released the parser in the
                \* middle of the input

vars == <<parser, created, sink, checked, input, pos, log, before, op, events, ret,
          lastlen, eofs, panicked, unpaused>>

-----------------------------------------------------------------------------
(* Characters. Text is written as tuples of one-character strings and      *)
(* turned into bytes by B; the apostrophe (39) and the grave accent (96)   *)
(* are written "quote" and "backtick".                                     *)

Printable ==
    <<" ", "!", "\"", "#", "$", "%", "&", "quote", "(", ")", "*", "+", ",", "-", ".", "/",
      "0", "1", "2", "3", "4", "5", "6", "7", "8", "9", ":", ";", "<", "=", ">", "?",
      "@", "A", "B", "C", "D", "E", "F", "G", "H", "I", "J", "K", "L", "M", "N", "O",
      "P", "Q", "R", "S", "T", "U", "V", "W", "X", "Y", "Z", "[", "\\", "]", "^", "_",
      "backtick", "a", "b", "c", "d", "e", "f", "g", "h", "i", "j", "k", "l", "m", "n", "o",
      "p", "q", "r", "s", "t", "u", "v", "w", "x", "y", "z", "{", "|", "}", "~">>

OrdTable ==
    [c \in {Printable[i] : i \in 1..Len(Printable)} \cup {"\r", "\n", "\t", "\f"} |->
        IF c = "\r" THEN 13
        ELSE IF c = "\n" THEN 10
        ELSE IF c = "\t" THEN 9
        ELSE IF c = "\f" THEN 12
        ELSE 31 + (CHOOSE i \in 1..Len(Printable) : Printable[i] = c)]

Ord(c) == OrdTable[c]

B(t) == [i \in 1..Len(t) |-> Ord(t[i])]

CR == 13
LF == 10
SP == Ord(" ")
TAB == Ord("\t")
FF == Ord("\f")

PROXY_CONNECTION ==
    B(<<"p","r","o","x","y","-","c","o","n","n","e","c","t","i","o","n">>)
CONNECTION == B(<<"c","o","n","n","e","c","t","i","o","n">>)
CONTENT_LENGTH == B(<<"c","o","n","t","e","n","t","-","l","e","n","g","t","h">>)
TRANSFER_ENCODING ==
    B(<<"t","r","a","n","s","f","e","r","-","e","n","c","o","d","i","n","g">>)
UPGRADE == B(<<"u","p","g","r","a","d","e">>)
CHUNKED == B(<<"c","h","u","n","k","e","d">>)
KEEP_ALIVE == B(<<"k","e","e","p","-","a","l","i","v","e">>)
CLOSE == B(<<"c","l","o","s","e">>)

HTTP_MAX_HEADER_SIZE == 80 * 1024

\* s.char_at(i) for a 0-based index i
char_at(s, i) == s[i + 1]

-----------------------------------------------------------------------------
(* The static tables. An entry None of TOKEN is written -1.                *)

None == 0 - 1

TOKEN ==
    <<None, None, None, None, None, None, None, None,
      None, None, None, None, None, None, None, None,
      None, None, None, None, None, None, None, None,
      None, None, None, None, None, None, None, None,
      None, Ord("!"), None, Ord("#"), Ord("$"), Ord("%"), Ord("&"), Ord("quote"),
      None, None, Ord("*"), Ord("+"), None, Ord("-"), Ord("."), None,
      Ord("0"), Ord("1"), Ord("2"), Ord("3"), Ord("4"), Ord("5"), Ord("6"), Ord("7"),
      Ord("8"), Ord("9"), None, None, None, None, None, None,
      None, Ord("a"), Ord("b"), Ord("c"), Ord("d"), Ord("e"), Ord("f"), Ord("g"),
      Ord("h"), Ord("i"), Ord("j"), Ord("k"), Ord("l"), Ord("m"), Ord("n"), Ord("o"),
      Ord("p"), Ord("q"), Ord("r"), Ord("s"), Ord("t"), Ord("u"), Ord("v"), Ord("w"),
      Ord("x"), Ord("y"), Ord("z"), None, None, None, Ord("^"), Ord("_"),
      Ord("backtick"), Ord("a"), Ord("b"), Ord("c"), Ord("d"), Ord("e"), Ord("f"), Ord("g"),
      Ord("h"), Ord("i"), Ord("j"), Ord("k"), Ord("l"), Ord("m"), Ord("n"), Ord("o"),
      Ord("p"), Ord("q"), Ord("r"), Ord("s"), Ord("t"), Ord("u"), Ord("v"), Ord("w"),
      Ord("x"), Ord("y"), Ord("z"), None, Ord("|"), None, Ord("~"), None>>
    \o [i \in 1..128 |-> None]

NORMAL_URL_CHAR ==
    <<0,
      2 + 16,
      0,
      0,
      2 + 4 + 16 + 32 + 64 + 128,
      1 + 2 + 4 + 8 + 16 + 32 + 64 + 128,
      1 + 2 + 4 + 8 + 16 + 32 + 64 + 128,
      1 + 2 + 4 + 8 + 16 + 32 + 64,
      1 + 2 + 4 + 8 + 16 + 32 + 64 + 128,
      1 + 2 + 4 + 8 + 16 + 32 + 64 + 128,
      1 + 2 + 4 + 8 + 16 + 32 + 64 + 128,
      1 + 2 + 4 + 8 + 16 + 32 + 64 + 128,
      1 + 2 + 4 + 8 + 16 + 32 + 64 + 128,
      1 + 2 + 4 + 8 + 16 + 32 + 64 + 128,
      1 + 2 + 4 + 8 + 16 + 32 + 64 + 128,
      1 + 2 + 4 + 8 + 16 + 32 + 64,
      0, 0, 0, 0, 0, 0, 0, 0, 0, 0, 0, 0, 0, 0, 0, 0>>

UNHEX ==
    [i \in 1..48 |-> None]
    \o <<0, 1, 2, 3, 4, 5, 6, 7, 8, 9, None, None, None, None, None, None>>
    \o <<None, 10, 11, 12, 13, 14, 15>> \o [i \in 1..25 |-> None]
    \o <<None, 10, 11, 12, 13, 14, 15>> \o [i \in 1..25 |-> None]
    \o [i \in 1..128 |-> None]

-----------------------------------------------------------------------------
(* Character classifiers.                                                  *)

token(hp, ch) ==
    IF hp.strict THEN TOKEN[ch + 1]
    ELSE IF ch = SP THEN SP ELSE TOKEN[ch + 1]

is_url_char(hp, ch) ==
    LET res == ((NORMAL_URL_CHAR[(ch \div 8) + 1] \div (2 ^ (ch % 8))) % 2) # 0
    IN res \/ (~hp.strict /\ ch >= 128)

lower(ch) == IF (ch \div 32) % 2 = 1 THEN ch ELSE ch + 32

is_num(ch) == ch >= Ord("0") /\ ch <= Ord("9")

is_alpha(ch) ==
    (ch >= Ord("a") /\ ch <= Ord("z")) \/ (ch >= Ord("A") /\ ch <= Ord("Z"))

is_alphanum(ch) == is_num(ch) \/ is_alpha(ch)

is_mark(ch) ==
    ch = Ord("-") \/ ch = Ord("_") \/ ch = Ord(".") \/ ch = Ord("!") \/ ch = Ord("~") \/
        ch = Ord("*") \/ ch = Ord("quote") \/ ch = Ord("(") \/ ch = Ord(")")

is_userinfo_char(ch) ==
    is_alphanum(ch) \/ is_mark(ch) \/ ch = Ord("%") \/
        ch = Ord(";") \/ ch = Ord(":") \/ ch = Ord("&") \/ ch = Ord("=") \/
        ch = Ord("+") \/ ch = Ord("$") \/ ch = Ord(",")

-----------------------------------------------------------------------------
(* 64-bit unsigned integers, as four 16-bit limbs, most significant first  *)
(* (TLC integers are 32 bits wide).                                       *)

Limb == 65536

U64(n) == <<0, 0, n \div Limb, n % Limb>>

U64_MAX == <<Limb - 1, Limb - 1, Limb - 1, Limb - 1>>

\* x < y
U64Lt(x, y) ==
    \E i \in 1..4 : x[i] < y[i] /\ \A j \in 1..(i - 1) : x[j] = y[j]

\* x * m + a for small m and a: the 64-bit result and whether it overflowed
U64MulAdd(x, m, a) ==
    LET l4 == x[4] * m + a
        l3 == x[3] * m + (l4 \div Limb)
        l2 == x[2] * m + (l3 \div Limb)
        l1 == x[1] * m + (l2 \div Limb)
    IN [v |-> <<l1 % Limb, l2 % Limb, l3 % Limb, l4 % Limb>>,
        overflow |-> (l1 \div Limb) # 0]

\* x - n for a small n <= x
U64Sub(x, n) ==
    LET d4 == x[4] - (n % Limb)
        b4 == IF d4 < 0 THEN 1 ELSE 0
        d3 == x[3] - (n \div Limb) - b4
        b3 == IF d3 < 0 THEN 1 ELSE 0
        d2 == x[2] - b3
        b2 == IF d2 < 0 THEN 1 ELSE 0
        d1 == x[1] - b2
    IN <<d1, d2 + b2 * Limb, d3 + b3 * Limb, d4 + b4 * Limb>>

\* x / d for a small d
U64Div(x, d) ==
    LET q1 == x[1] \div d
        r1 == x[1] % d
        q2 == (r1 * Limb + x[2]) \div d
        r2 == (r1 * Limb + x[2]) % d
        q3 == (r2 * Limb + x[3]) \div d
        r3 == (r2 * Limb + x[3]) % d
        q4 == (r3 * Limb + x[4]) \div d
    IN <<q1, q2, q3, q4>>

\* cmp::min(x, n) for a small n, as a small number
U64Min(x, n) == IF U64Lt(x, U64(n)) THEN x[3] * Limb + x[4] ELSE n

ULLONG_MAX == U64Sub(U64_MAX, 1)

-----------------------------------------------------------------------------
(* The parser context.                                                     *)

NoErr == "None"

\* `state <= State::HeadersDone` in the declaration order of enum State: the
\* states that follow HeadersDone are the body states.
ParsingHeader(s) ==
    s \notin {"ChunkData", "ChunkDataAlmostDone", "ChunkDataDone",
              "BodyIdentity", "BodyIdentityEof", "MessageDone"}

\* HttpMethod::to_string
method_to_string ==
    [Delete      |-> B(<<"D","E","L","E","T","E">>),
     Get         |-> B(<<"G","E","T">>),
     Head        |-> B(<<"H","E","A","D">>),
     Post        |-> B(<<"P","O","S","T">>),
     Put         |-> B(<<"P","U","T">>),
     Connect     |-> B(<<"C","O","N","N","E","C","T">>),
     Options     |-> B(<<"O","P","T","I","O","N","S">>),
     Trace       |-> B(<<"T","R","A","C","E">>),
     Copy        |-> B(<<"C","O","P","Y">>),
     Lock        |-> B(<<"L","O","C","K">>),
     MKCol       |-> B(<<"M","K","C","O","L">>),
     Move        |-> B(<<"M","O","V","E">>),
     PropFind    |-> B(<<"P","R","O","P","F","I","N","D">>),
     PropPatch   |-> B(<<"P","R","O","P","P","A","T","C","H">>),
     Search      |-> B(<<"S","E","A","R","C","H">>),
     Unlock      |-> B(<<"U","N","L","O","C","K">>),
     Report      |-> B(<<"R","E","P","O","R","T">>),
     MKActivity  |-> B(<<"M","K","A","C","T","I","V","I","T","Y">>),
     Checkout    |-> B(<<"C","H","E","C","K","O","U","T">>),
     Merge       |-> B(<<"M","E","R","G","E">>),
     MSearch     |-> B(<<"M","-","S","E","A","R","C","H">>),
     Notify      |-> B(<<"N","O","T","I","F","Y">>),
     Subscribe   |-> B(<<"S","U","B","S","C","R","I","B","E">>),
     Unsubscribe |-> B(<<"U","N","S","U","B","S","C","R","I","B","E">>),
     Patch       |-> B(<<"P","A","T","C","H">>),
     Purge       |-> B(<<"P","U","R","G","E">>),
     MKCalendar  |-> B(<<"M","K","C","A","L","E","N","D","A","R">>)]

new(tp) ==
    [tp             |-> tp,
     state          |-> CASE tp = "Request"  -> "StartReq"
                          [] tp = "Response" -> "StartRes"
                          [] tp = "Both"     -> "StartReqOrRes",
     header_state   |-> "General",
     flags          |-> {},
     index          |-> 0,
     nread          |-> 0,
     content_length |-> ULLONG_MAX,
     http_version   |-> [major |-> 1, minor |-> 0],
     errno          |-> NoErr,
     status_code    |-> 0,
     method         |-> "Get",
     upgrade        |-> FALSE,
     strict         |-> TRUE]

\* Does the parser need to see an EOF to find the end of the message?
http_message_needs_eof(hp) ==
    IF hp.tp = "Request" THEN FALSE
    ELSE IF hp.status_code \div 100 = 1 \/
            hp.status_code = 204 \/
            hp.status_code = 304 \/
            "SKIPBODY" \in hp.flags THEN FALSE
    ELSE IF "CHUNKED" \in hp.flags \/ hp.content_length # ULLONG_MAX THEN FALSE
    ELSE TRUE

http_should_keep_alive(hp) ==
    IF hp.http_version.major > 0 /\ hp.http_version.minor > 0
    THEN IF "CONNECTION_CLOSE" \in hp.flags
         THEN FALSE
         ELSE ~http_message_needs_eof(hp)
    ELSE IF "CONNECTION_KEEP_ALIVE" \notin hp.flags
         THEN FALSE
         ELSE ~http_message_needs_eof(hp)

\* a test for the last body callback that holds in every identity body state
http_body_is_final_in_body(hp) == hp.state \in {"MessageDone", "BodyIdentity"}

http_body_is_final(hp) == hp.state = "MessageDone"

start_state(hp) == IF hp.tp = "Request" THEN "StartReq" ELSE "StartRes"

\* a new_message! that never closes the connection
new_message_restarts(hp) == start_state(hp)

new_message(hp) ==
    IF hp.strict
    THEN IF http_should_keep_alive(hp) THEN start_state(hp) ELSE "Dead"
    ELSE start_state(hp)

\* a URL parser that lets a second @ pass in the server part
parse_url_char_double_at(hp, s, ch) ==
    IF ch = SP \/ ch = CR \/ ch = LF THEN "Dead"
    ELSE IF hp.strict /\ (ch = TAB \/ ch = FF) THEN "Dead"
    ELSE CASE s = "ReqSpacesBeforeUrl" ->
                IF ch = Ord("/") \/ ch = Ord("*") THEN "ReqPath"
                ELSE IF is_alpha(ch) THEN "ReqSchema"
                ELSE "Dead"
           [] s = "ReqSchema" ->
                IF is_alpha(ch) THEN s
                ELSE IF ch = Ord(":") THEN "ReqSchemaSlash"
                ELSE "Dead"
           [] s = "ReqSchemaSlash" ->
                IF ch = Ord("/") THEN "ReqSchemaSlashSlash" ELSE "Dead"
           [] s = "ReqSchemaSlashSlash" ->
                IF ch = Ord("/") THEN "ReqServerStart" ELSE "Dead"
           [] s \in {"ReqServerWithAt", "ReqServerStart", "ReqServer"}
              ->
                IF ch = Ord("/") THEN "ReqPath"
                ELSE IF ch = Ord("?") THEN "ReqQueryStringStart"
                ELSE IF ch = Ord("@") THEN "ReqServerWithAt"
                ELSE IF is_userinfo_char(ch) \/ ch = Ord("[") \/ ch = Ord("]")
                     THEN "ReqServer"
                ELSE "Dead"
           [] s = "ReqPath" ->
                IF is_url_char(hp, ch) THEN s
                ELSE IF ch = Ord("?") THEN "ReqQueryStringStart"
                ELSE IF ch = Ord("#") THEN "ReqFragmentStart"
                ELSE "Dead"
           [] s \in {"ReqQueryStringStart", "ReqQueryString"} ->
                IF is_url_char(hp, ch) THEN "ReqQueryString"
                ELSE IF ch = Ord("?") THEN "ReqQueryString"
                ELSE IF ch = Ord("#") THEN "ReqFragmentStart"
                ELSE "Dead"
           [] s = "ReqFragmentStart" ->
                IF is_url_char(hp, ch) THEN "ReqFragment"
                ELSE IF ch = Ord("?") THEN "ReqFragment"
                ELSE IF ch = Ord("#") THEN s
                ELSE "Dead"
           [] s = "ReqFragment" ->
                IF is_url_char(hp, ch) THEN s
                ELSE IF ch = Ord("?") \/ ch = Ord("#") THEN s
                ELSE "Dead"
           [] OTHER -> "Dead"

\* Our URL parser
parse_url_char(hp, s, ch) ==
    IF ch = SP \/ ch = CR \/ ch = LF THEN "Dead"
    ELSE IF hp.strict /\ (ch = TAB \/ ch = FF) THEN "Dead"
    ELSE CASE s = "ReqSpacesBeforeUrl" ->
                IF ch = Ord("/") \/ ch = Ord("*") THEN "ReqPath"
                ELSE IF is_alpha(ch) THEN "ReqSchema"
                ELSE "Dead"
           [] s = "ReqSchema" ->
                IF is_alpha(ch) THEN s
                ELSE IF ch = Ord(":") THEN "ReqSchemaSlash"
                ELSE "Dead"
           [] s = "ReqSchemaSlash" ->
                IF ch = Ord("/") THEN "ReqSchemaSlashSlash" ELSE "Dead"
           [] s = "ReqSchemaSlashSlash" ->
                IF ch = Ord("/") THEN "ReqServerStart" ELSE "Dead"
           [] s = "ReqServerWithAt" /\ ch = Ord("@") -> "Dead"
           [] s \in {"ReqServerWithAt", "ReqServerStart", "ReqServer"}
              /\ ~(s = "ReqServerWithAt" /\ ch = Ord("@")) ->
                IF ch = Ord("/") THEN "ReqPath"
                ELSE IF ch = Ord("?") THEN "ReqQueryStringStart"
                ELSE IF ch = Ord("@") THEN "ReqServerWithAt"
                ELSE IF is_userinfo_char(ch) \/ ch = Ord("[") \/ ch = Ord("]")
                     THEN "ReqServer"
                ELSE "Dead"
           [] s = "ReqPath" ->
                IF is_url_char(hp, ch) THEN s
                ELSE IF ch = Ord("?") THEN "ReqQueryStringStart"
                ELSE IF ch = Ord("#") THEN "ReqFragmentStart"
                ELSE "Dead"
           [] s \in {"ReqQueryStringStart", "ReqQueryString"} ->
                IF is_url_char(hp, ch) THEN "ReqQueryString"
                ELSE IF ch = Ord("?") THEN "ReqQueryString"
                ELSE IF ch = Ord("#") THEN "ReqFragmentStart"
                ELSE "Dead"
           [] s = "ReqFragmentStart" ->
                IF is_url_char(hp, ch) THEN "ReqFragment"
                ELSE IF ch = Ord("?") THEN "ReqFragment"
                ELSE IF ch = Ord("#") THEN s
                ELSE "Dead"
           [] s = "ReqFragment" ->
                IF is_url_char(hp, ch) THEN s
                ELSE IF ch = Ord("?") \/ ch = Ord("#") THEN s
                ELSE "Dead"
           [] OTHER -> "Dead"

-----------------------------------------------------------------------------
(* One call of execute. The call's locals are a record c:                  *)
(*   p       the parser (self)                                             *)
(*   cb      the sink: cb.fail names the callback that reports an error    *)
(*           ("none": no callback does), cb.decision is the answer of      *)
(*           on_headers_complete                                           *)
(*   data    the chunk, checked: whether arithmetic overflow panics        *)
(*   index   the cursor into data (0-based)                                *)
(*   header_field_mark, header_value_mark, url_mark, body_mark,            *)
(*   status_mark   the marks (None: unset)                                 *)
(*   ev      the callbacks made so far                                     *)
(*   ret     the value returned (None while the call is running)           *)
(*   panic   TRUE when the call has panicked                               *)
(*   retry   the retry flag of the re-execute loop                         *)

\* a return at idx that leaves errno as it was
Fail_without_errno(c, e, idx) ==
    [c EXCEPT !.ret = idx]

Fail(c, e, idx) == [c EXCEPT !.p.errno = e, !.ret = idx]

Return(c, idx) == [c EXCEPT !.ret = idx]

Panic(c) == [c EXCEPT !.panic = TRUE]

Goto(c, s) == [c EXCEPT !.p.state = s]

Retry(c) == [c EXCEPT !.retry = TRUE]

Running(c) == c.ret = None /\ ~c.panic

\* what the sink sees in one callback: its kind, the slice, and the parser;
\* at is the value of index when the callback is made
CallbackEvent(c, kind, slice) ==
    [k |-> kind, d |-> slice, state |-> c.p.state, flags |-> c.p.flags,
     at |-> c.index, upgrade |-> c.p.upgrade, nread |-> c.p.nread]

assert_ok(c) == c.p.errno = NoErr

callback(c, kind, err) ==
    LET c1 == [c EXCEPT !.ev = Append(@, CallbackEvent(c, kind, <<>>))]
    IN IF c.cb.fail = kind THEN [c1 EXCEPT !.p.errno = err] ELSE c1

\* a notification whose error return gives the index of the current byte
notify_returns_index(c, kind, err, idx) ==
    IF ~assert_ok(c) THEN Panic(c)
    ELSE LET c1 == callback(c, kind, err)
         IN IF c1.p.errno # NoErr THEN Return(c1, c.index) ELSE c1

\* assert_ok!, callback! and the `if self.errno.is_some() { return idx }`
\* that follows them
notify(c, kind, err, idx) ==
    IF ~assert_ok(c) THEN Panic(c)
    ELSE LET c1 == callback(c, kind, err)
         IN IF c1.p.errno # NoErr THEN Return(c1, idx) ELSE c1

\* a callback_data! that leaves the mark set after the callback
callback_data_keeps_mark(c, m, kind, err, to, idx) ==
    IF c[m] = None THEN c
    ELSE IF c[m] > to \/ to > Len(c.data) THEN Panic(c)
    ELSE LET slice == SubSeq(c.data, c[m] + 1, to)
             c1 == [c EXCEPT !.ev = Append(@, CallbackEvent(c, kind, slice))]
             c2 == IF c.cb.fail = kind THEN [c1 EXCEPT !.p.errno = err] ELSE c1
         IN IF c2.p.errno # NoErr THEN Return(c2, idx)
            ELSE c2

\* callback_data! on the mark named m, for the slice data[mark .. to]
callback_data(c, m, kind, err, to, idx) ==
    IF c[m] = None THEN c
    ELSE IF c[m] > to \/ to > Len(c.data) THEN Panic(c)
    ELSE LET slice == SubSeq(c.data, c[m] + 1, to)
             c1 == [c EXCEPT !.ev = Append(@, CallbackEvent(c, kind, slice))]
             c2 == IF c.cb.fail = kind THEN [c1 EXCEPT !.p.errno = err] ELSE c1
         IN IF c2.p.errno # NoErr THEN Return(c2, idx)
            ELSE [c2 EXCEPT ![m] = None]

\* assert_ok! followed by callback_data!
emit(c, m, kind, err, to, idx) ==
    IF ~assert_ok(c) THEN Panic(c) ELSE callback_data(c, m, kind, err, to, idx)

mark(c, m, idx) == IF c[m] = None THEN [c EXCEPT ![m] = idx] ELSE c

strict_check(c, cond) == c.p.strict /\ cond

\* v *= 10; v += d on a u8 field: a release build wraps in both statements; a
\* debug build panics in the first that overflows, and the field keeps what
\* was stored before it (v when the product overflows, the product when the
\* sum does). v is the field after the two statements or at the panic.
u8_push_digit(c, v, d) ==
    LET m == v * 10
    IN IF c.checked /\ m > 255 THEN [panic |-> TRUE, v |-> v]
       ELSE IF c.checked /\ (m % 256) + d > 255
            THEN [panic |-> TRUE, v |-> m % 256]
            ELSE [panic |-> FALSE, v |-> ((m % 256) + d) % 256]

-----------------------------------------------------------------------------
(* The arms of `match self.state`, one operator per arm.                   *)

\* a Dead arm that lets every byte pass
Dead_tolerant(c, ch) == c

Dead(c, ch) ==
    IF ch # CR /\ ch # LF THEN Fail(c, "ClosedConnection", c.index) ELSE c

StartReqOrRes(c, ch) ==
    IF ch # CR /\ ch # LF
    THEN LET c1 == [c EXCEPT !.p.flags = {}, !.p.content_length = ULLONG_MAX]
         IN IF ch = Ord("H")
            THEN notify(Goto(c1, "ResOrRespH"), "on_message_begin",
                        "CBMessageBegin", c.index + 1)
            ELSE Retry([c1 EXCEPT !.p.tp = "Request", !.p.state = "StartReq"])
    ELSE c

ResOrRespH(c, ch) ==
    IF ch = Ord("T")
    THEN [c EXCEPT !.p.tp = "Response", !.p.state = "ResHT"]
    ELSE IF ch # Ord("E")
         THEN Fail(c, "InvalidConstant", c.index)
         ELSE [c EXCEPT !.p.tp = "Request", !.p.method = "Head",
                        !.p.index = 2, !.p.state = "ReqMethod"]

StartRes(c, ch) ==
    LET c1 == [c EXCEPT !.p.flags = {}, !.p.content_length = ULLONG_MAX]
    IN IF ch = Ord("H")
       THEN notify(Goto(c1, "ResH"), "on_message_begin", "CBMessageBegin",
                   c.index + 1)
       ELSE IF ch = CR \/ ch = LF
            THEN notify(c1, "on_message_begin", "CBMessageBegin", c.index + 1)
            ELSE Fail(c1, "InvalidConstant", c.index)

\* the arms that expect one literal byte: ResH .. ResHTTP, ReqHttpH .. ReqHttpHTTP
Literal(c, ch, expected, next) ==
    IF strict_check(c, ch # expected) THEN Fail(c, "Strict", c.index)
    ELSE Goto(c, next)

ResH(c, ch) == Literal(c, ch, Ord("T"), "ResHT")

ResHT(c, ch) == Literal(c, ch, Ord("T"), "ResHTT")

ResHTT(c, ch) == Literal(c, ch, Ord("P"), "ResHTTP")

ResHTTP(c, ch) == Literal(c, ch, Ord("/"), "ResFirstHttpMajor")

ResFirstHttpMajor(c, ch) ==
    IF ch < Ord("0") \/ ch > Ord("9") THEN Fail(c, "InvalidVersion", c.index)
    ELSE [c EXCEPT !.p.http_version.major = ch - Ord("0"),
                   !.p.state = "ResHttpMajor"]

\* the digits after the first of http_version.major
HttpMajorDigit(c, ch) ==
    IF ~is_num(ch) THEN Fail(c, "InvalidVersion", c.index)
    ELSE LET r == u8_push_digit(c, c.p.http_version.major, ch - Ord("0"))
             c1 == [c EXCEPT !.p.http_version.major = r.v]
         IN IF r.panic THEN Panic(c1)
            ELSE IF r.v > 99 THEN Fail(c1, "InvalidVersion", c.index)
            ELSE c1

\* the digits after the first of http_version.minor
HttpMinorDigit(c, ch) ==
    IF ~is_num(ch) THEN Fail(c, "InvalidVersion", c.index)
    ELSE LET r == u8_push_digit(c, c.p.http_version.minor, ch - Ord("0"))
             c1 == [c EXCEPT !.p.http_version.minor = r.v]
         IN IF r.panic THEN Panic(c1)
            ELSE IF r.v > 99 THEN Fail(c1, "InvalidVersion", c.index)
            ELSE c1

ResHttpMajor(c, ch) ==
    IF ch = Ord(".") THEN Goto(c, "ResFirstHttpMinor") ELSE HttpMajorDigit(c, ch)

ResFirstHttpMinor(c, ch) ==
    IF ~is_num(ch) THEN Fail(c, "InvalidVersion", c.index)
    ELSE [c EXCEPT !.p.http_version.minor = ch - Ord("0"),
                   !.p.state = "ResHttpMinor"]

ResHttpMinor(c, ch) ==
    IF ch = SP THEN Goto(c, "ResFirstStatusCode") ELSE HttpMinorDigit(c, ch)

ResFirstStatusCode(c, ch) ==
    IF ~is_num(ch)
    THEN IF ch # SP THEN Fail(c, "InvalidStatus", c.index) ELSE c
    ELSE [c EXCEPT !.p.status_code = ch - Ord("0"), !.p.state = "ResStatusCode"]

ResStatusCode(c, ch) ==
    IF ~is_num(ch)
    THEN CASE ch = SP -> Goto(c, "ResStatusStart")
           [] ch = CR -> Goto(c, "ResLineAlmostDone")
           [] ch = LF -> Goto(c, "HeaderFieldStart")
           [] OTHER   -> Fail(c, "InvalidStatus", c.index)
    ELSE LET v == c.p.status_code * 10 + (ch - Ord("0"))
             c1 == [c EXCEPT !.p.status_code = v]
         IN IF v > 999 THEN Fail(c1, "InvalidStatus", c.index) ELSE c1

ResStatusStart(c, ch) ==
    IF ch = CR THEN Goto(c, "ResLineAlmostDone")
    ELSE IF ch = LF THEN Goto(c, "HeaderFieldStart")
    ELSE [mark(c, "status_mark", c.index) EXCEPT !.p.state = "ResStatus",
                                                 !.p.index = 0]

ResStatus(c, ch) ==
    IF ch = CR
    THEN emit(Goto(c, "ResLineAlmostDone"), "status_mark", "on_status",
              "CBStatus", c.index, c.index + 1)
    ELSE IF ch = LF
    THEN emit(Goto(c, "HeaderFieldStart"), "status_mark", "on_status",
              "CBStatus", c.index, c.index + 1)
    ELSE c

ResLineAlmostDone(c, ch) == Literal(c, ch, LF, "HeaderFieldStart")

\* the method candidate chosen by the first byte of a request
FirstMethod(ch) ==
    CASE ch = Ord("C") -> "Connect"
      [] ch = Ord("D") -> "Delete"
      [] ch = Ord("G") -> "Get"
      [] ch = Ord("H") -> "Head"
      [] ch = Ord("L") -> "Lock"
      [] ch = Ord("M") -> "MKCol"
      [] ch = Ord("N") -> "Notify"
      [] ch = Ord("O") -> "Options"
      [] ch = Ord("P") -> "Post"
      [] ch = Ord("R") -> "Report"
      [] ch = Ord("S") -> "Subscribe"
      [] ch = Ord("T") -> "Trace"
      [] ch = Ord("U") -> "Unlock"
      [] OTHER -> "None"

StartReq(c, ch) ==
    IF ch # CR /\ ch # LF
    THEN LET c1 == [c EXCEPT !.p.flags = {}, !.p.content_length = ULLONG_MAX]
         IN IF ~is_alpha(ch) THEN Fail(c1, "InvalidMethod", c.index)
            ELSE IF FirstMethod(ch) = "None"
            THEN Fail([c1 EXCEPT !.p.method = "Delete", !.p.index = 1],
                      "InvalidMethod", c.index)
            ELSE notify([c1 EXCEPT !.p.method = FirstMethod(ch), !.p.index = 1,
                                   !.p.state = "ReqMethod"],
                        "on_message_begin", "CBMessageBegin", c.index + 1)
    ELSE c

\* a pivot table without the turn from PropFind to PropPatch
MethodPivot_without_proppatch(method, index, ch) ==
    IF method = "Connect"
    THEN IF index = 1 /\ ch = Ord("H") THEN "Checkout"
         ELSE IF index = 2 /\ ch = Ord("P") THEN "Copy"
         ELSE "None"
    ELSE IF method = "MKCol"
    THEN IF index = 1 /\ ch = Ord("O") THEN "Move"
         ELSE IF index = 1 /\ ch = Ord("E") THEN "Merge"
         ELSE IF index = 1 /\ ch = Ord("-") THEN "MSearch"
         ELSE IF index = 2 /\ ch = Ord("A") THEN "MKActivity"
         ELSE IF index = 3 /\ ch = Ord("A") THEN "MKCalendar"
         ELSE "None"
    ELSE IF method = "Subscribe"
    THEN IF index = 1 /\ ch = Ord("E") THEN "Search" ELSE "None"
    ELSE IF index = 1 /\ method = "Post"
    THEN IF ch = Ord("R") THEN "PropFind"
         ELSE IF ch = Ord("U") THEN "Put"
         ELSE IF ch = Ord("A") THEN "Patch"
         ELSE "None"
    ELSE IF index = 2
    THEN IF method = "Put"
         THEN IF ch = Ord("R") THEN "Purge" ELSE "None"
         ELSE IF method = "Unlock"
         THEN IF ch = Ord("S") THEN "Unsubscribe" ELSE "None"
         ELSE "None"
    ELSE "None"

\* the pivots of ReqMethod: the method the candidate turns into on a byte that
\* does not continue its name, "None" when there is none
MethodPivot(method, index, ch) ==
    IF method = "Connect"
    THEN IF index = 1 /\ ch = Ord("H") THEN "Checkout"
         ELSE IF index = 2 /\ ch = Ord("P") THEN "Copy"
         ELSE "None"
    ELSE IF method = "MKCol"
    THEN IF index = 1 /\ ch = Ord("O") THEN "Move"
         ELSE IF index = 1 /\ ch = Ord("E") THEN "Merge"
         ELSE IF index = 1 /\ ch = Ord("-") THEN "MSearch"
         ELSE IF index = 2 /\ ch = Ord("A") THEN "MKActivity"
         ELSE IF index = 3 /\ ch = Ord("A") THEN "MKCalendar"
         ELSE "None"
    ELSE IF method = "Subscribe"
    THEN IF index = 1 /\ ch = Ord("E") THEN "Search" ELSE "None"
    ELSE IF index = 1 /\ method = "Post"
    THEN IF ch = Ord("R") THEN "PropFind"
         ELSE IF ch = Ord("U") THEN "Put"
         ELSE IF ch = Ord("A") THEN "Patch"
         ELSE "None"
    ELSE IF index = 2
    THEN IF method = "Put"
         THEN IF ch = Ord("R") THEN "Purge" ELSE "None"
         ELSE IF method = "Unlock"
         THEN IF ch = Ord("S") THEN "Unsubscribe" ELSE "None"
         ELSE "None"
    ELSE IF index = 4 /\ method = "PropFind" /\ ch = Ord("P") THEN "PropPatch"
    ELSE "None"

ReqMethod(c, ch) ==
    IF c.index = Len(c.data) THEN Fail(c, "InvalidMethod", c.index)
    ELSE LET matcher == method_to_string[c.p.method]
         IN IF ch = SP /\ c.p.index = Len(matcher)
            THEN [c EXCEPT !.p.state = "ReqSpacesBeforeUrl", !.p.index = @ + 1]
            ELSE IF c.p.index < Len(matcher) /\ ch = char_at(matcher, c.p.index)
            THEN [c EXCEPT !.p.index = @ + 1]
            ELSE IF MethodPivot(c.p.method, c.p.index, ch) = "None"
            THEN Fail(c, "InvalidMethod", c.index)
            ELSE [c EXCEPT !.p.method = MethodPivot(c.p.method, c.p.index, ch),
                           !.p.index = @ + 1]

ReqSpacesBeforeUrl(c, ch) ==
    IF ch # SP
    THEN LET c1 == mark(c, "url_mark", c.index)
             s1 == IF c.p.method = "Connect" THEN "ReqServerStart" ELSE c.p.state
             s2 == parse_url_char(c.p, s1, ch)
         IN IF s2 = "Dead" THEN Fail(Goto(c1, s2), "InvalidUrl", c.index)
            ELSE Goto(c1, s2)
    ELSE c

\* ReqSchema | ReqSchemaSlash | ReqSchemaSlashSlash | ReqServerStart
ReqSchemaStates(c, ch) ==
    IF ch = SP \/ ch = CR \/ ch = LF THEN Fail(c, "InvalidUrl", c.index)
    ELSE LET s2 == parse_url_char(c.p, c.p.state, ch)
         IN IF s2 = "Dead" THEN Fail(Goto(c, s2), "InvalidUrl", c.index)
            ELSE Goto(c, s2)

\* ReqServer | ReqServerWithAt | ReqPath | ReqQueryStringStart |
\* ReqQueryString | ReqFragmentStart | ReqFragment
ReqUrlStates(c, ch) ==
    IF ch = SP
    THEN emit(Goto(c, "ReqHttpStart"), "url_mark", "on_url", "CBUrl",
              c.index, c.index + 1)
    ELSE IF ch = CR \/ ch = LF
    THEN emit([c EXCEPT !.p.http_version = [major |-> 0, minor |-> 9],
                        !.p.state = IF ch = CR THEN "ReqLineAlmostDone"
                                    ELSE "HeaderFieldStart"],
              "url_mark", "on_url", "CBUrl", c.index, c.index + 1)
    ELSE LET s2 == parse_url_char(c.p, c.p.state, ch)
         IN IF s2 = "Dead" THEN Fail(Goto(c, s2), "InvalidUrl", c.index)
            ELSE Goto(c, s2)

ReqHttpStart(c, ch) ==
    IF ch = Ord("H") THEN Goto(c, "ReqHttpH")
    ELSE IF ch = SP THEN c
    ELSE Fail(c, "InvalidConstant", c.index)

ReqHttpH(c, ch) == Literal(c, ch, Ord("T"), "ReqHttpHT")

ReqHttpHT(c, ch) == Literal(c, ch, Ord("T"), "ReqHttpHTT")

ReqHttpHTT(c, ch) == Literal(c, ch, Ord("P"), "ReqHttpHTTP")

ReqHttpHTTP(c, ch) == Literal(c, ch, Ord("/"), "ReqFirstHttpMajor")

ReqFirstHttpMajor(c, ch) ==
    IF ch < Ord("1") \/ ch > Ord("9") THEN Fail(c, "InvalidVersion", c.index)
    ELSE [c EXCEPT !.p.http_version.major = ch - Ord("0"),
                   !.p.state = "ReqHttpMajor"]

ReqHttpMajor(c, ch) ==
    IF ch = Ord(".") THEN Goto(c, "ReqFirstHttpMinor") ELSE HttpMajorDigit(c, ch)

ReqFirstHttpMinor(c, ch) ==
    IF ~is_num(ch) THEN Fail(c, "InvalidVersion", c.index)
    ELSE [c EXCEPT !.p.http_version.minor = ch - Ord("0"),
                   !.p.state = "ReqHttpMinor"]

ReqHttpMinor(c, ch) ==
    IF ch = CR THEN Goto(c, "ReqLineAlmostDone")
    ELSE IF ch = LF THEN Goto(c, "HeaderFieldStart")
    ELSE HttpMinorDigit(c, ch)

ReqLineAlmostDone(c, ch) ==
    IF ch # LF THEN Fail(c, "LFExpected", c.index)
    ELSE Goto(c, "HeaderFieldStart")

HeaderFieldStart(c, ch) ==
    IF ch = CR THEN Goto(c, "HeadersAlmostDone")
    ELSE IF ch = LF THEN Retry(Goto(c, "HeadersAlmostDone"))
    ELSE LET t == token(c.p, ch)
         IN IF t = None THEN Fail(c, "InvalidHeaderToken", c.index)
            ELSE [mark(c, "header_field_mark", c.index) EXCEPT
                     !.p.index = 0,
                     !.p.state = "HeaderField",
                     !.p.header_state =
                         CASE t = Ord("c") -> "C"
                           [] t = Ord("p") -> "MatchingProxyConnection"
                           [] t = Ord("t") -> "MatchingTransferEncoding"
                           [] t = Ord("u") -> "MatchingUpgrade"
                           [] OTHER        -> "General"]

\* one step of a keyword matcher (header name or header value): index has
\* already been advanced
Matching(index, t, keyword, matching, matched) ==
    IF index >= Len(keyword) \/ t # char_at(keyword, index) THEN "General"
    ELSE IF index = Len(keyword) - 1 THEN matched
    ELSE matching

HeaderField(c, ch) ==
    LET t == token(c.p, ch)
        hs == c.p.header_state
        i == c.p.index + 1
    IN IF t # None
       THEN CASE hs = "General" -> c
              [] hs = "C" ->
                   [c EXCEPT !.p.index = i,
                             !.p.header_state =
                                 IF t = Ord("o") THEN "CO" ELSE "General"]
              [] hs = "CO" ->
                   [c EXCEPT !.p.index = i,
                             !.p.header_state =
                                 IF t = Ord("n") THEN "CON" ELSE "General"]
              [] hs = "CON" ->
                   [c EXCEPT !.p.index = i,
                             !.p.header_state =
                                 CASE t = Ord("n") -> "MatchingConnection"
                                   [] t = Ord("t") -> "MatchingContentLength"
                                   [] OTHER        -> "General"]
              [] hs = "MatchingConnection" ->
                   [c EXCEPT !.p.index = i,
                             !.p.header_state =
                                 Matching(i, t, CONNECTION, hs, "Connection")]
              [] hs = "MatchingProxyConnection" ->
                   [c EXCEPT !.p.index = i,
                             !.p.header_state =
                                 Matching(i, t, PROXY_CONNECTION, hs, "Connection")]
              [] hs = "MatchingContentLength" ->
                   [c EXCEPT !.p.index = i,
                             !.p.header_state =
                                 Matching(i, t, CONTENT_LENGTH, hs, "ContentLength")]
              [] hs = "MatchingTransferEncoding" ->
                   [c EXCEPT !.p.index = i,
                             !.p.header_state =
                                 Matching(i, t, TRANSFER_ENCODING, hs,
                                          "TransferEncoding")]
              [] hs = "MatchingUpgrade" ->
                   [c EXCEPT !.p.index = i,
                             !.p.header_state =
                                 Matching(i, t, UPGRADE, hs, "Upgrade")]
              [] hs \in {"Connection", "ContentLength", "TransferEncoding",
                         "Upgrade"} ->
                   IF ch # SP THEN [c EXCEPT !.p.header_state = "General"] ELSE c
              [] OTHER -> Panic(c)
       ELSE IF ch = Ord(":")
       THEN emit(Goto(c, "HeaderValueDiscardWs"), "header_field_mark",
                 "on_header_field", "CBHeaderField", c.index, c.index + 1)
       ELSE Fail(c, "InvalidHeaderToken", c.index)

\* HeaderValueDiscardWs (on a byte that is not white space) | HeaderValueStart
HeaderValueStart(c, ch) ==
    LET c1 == [mark(c, "header_value_mark", c.index) EXCEPT
                  !.p.state = "HeaderValue", !.p.index = 0]
        low == lower(ch)
        hs == c.p.header_state
    IN CASE hs = "Upgrade" ->
              [c1 EXCEPT !.p.flags = @ \cup {"UPGRADE"},
                         !.p.header_state = "General"]
         [] hs = "TransferEncoding" ->
              [c1 EXCEPT !.p.header_state =
                             IF low = Ord("c") THEN "MatchingTransferEncodingChunked"
                             ELSE "General"]
         [] hs = "ContentLength" ->
              IF ~is_num(ch) THEN Fail(c1, "InvalidContentLength", c.index)
              ELSE [c1 EXCEPT !.p.content_length = U64(ch - Ord("0"))]
         [] hs = "Connection" ->
              [c1 EXCEPT !.p.header_state =
                             IF low = Ord("k") THEN "MatchingConnectionKeepAlive"
                             ELSE IF low = Ord("c") THEN "MatchingConnectionClose"
                             ELSE "General"]
         [] OTHER -> [c1 EXCEPT !.p.header_state = "General"]

HeaderValueDiscardWs(c, ch) ==
    IF ch = SP \/ ch = TAB THEN c
    ELSE IF ch = CR THEN Goto(c, "HeaderValueDiscardWsAlmostDone")
    ELSE IF ch = LF THEN Goto(c, "HeaderValueDiscardLws")
    ELSE HeaderValueStart(c, ch)

\* the decimal digit d appended to content_length (base 10), or the hex digit
\* (base 16): t is computed first, then the guard is tested
push_digit(c, base, d, err) ==
    LET t == U64MulAdd(c.p.content_length, base, d)
    IN IF c.checked /\ t.overflow THEN Panic(c)
       ELSE IF U64Lt(U64Div(U64Sub(ULLONG_MAX, base), base), c.p.content_length)
       THEN Fail(c, err, c.index)
       ELSE [c EXCEPT !.p.content_length = t.v]

HeaderValue(c, ch) ==
    LET low == lower(ch)
        hs == c.p.header_state
        i == c.p.index + 1
    IN IF ch = CR
       THEN emit(Goto(c, "HeaderAlmostDone"), "header_value_mark",
                 "on_header_value", "CBHeaderValue", c.index, c.index + 1)
       ELSE IF ch = LF
       THEN LET c1 == emit(Goto(c, "HeaderAlmostDone"), "header_value_mark",
                           "on_header_value", "CBHeaderValue", c.index, c.index)
            IN IF Running(c1) THEN Retry(c1) ELSE c1
       ELSE CASE hs = "General" -> c
              [] hs \in {"Connection", "TransferEncoding"} -> Panic(c)
              [] hs = "ContentLength" ->
                   IF ch # SP
                   THEN IF ~is_num(ch)
                        THEN Fail(c, "InvalidContentLength", c.index)
                        ELSE push_digit(c, 10, ch - Ord("0"),
                                        "InvalidContentLength")
                   ELSE c
              [] hs = "MatchingTransferEncodingChunked" ->
                   [c EXCEPT !.p.index = i,
                             !.p.header_state =
                                 Matching(i, low, CHUNKED, hs,
                                          "TransferEncodingChunked")]
              [] hs = "MatchingConnectionKeepAlive" ->
                   [c EXCEPT !.p.index = i,
                             !.p.header_state =
                                 Matching(i, low, KEEP_ALIVE, hs,
                                          "ConnectionKeepAlive")]
              [] hs = "MatchingConnectionClose" ->
                   [c EXCEPT !.p.index = i,
                             !.p.header_state =
                                 Matching(i, low, CLOSE, hs, "ConnectionClose")]
              [] hs \in {"TransferEncodingChunked", "ConnectionKeepAlive",
                         "ConnectionClose"} ->
                   IF ch # SP THEN [c EXCEPT !.p.header_state = "General"] ELSE c
              [] OTHER ->
                   [c EXCEPT !.p.state = "HeaderValue",
                             !.p.header_state = "General"]

HeaderAlmostDone(c, ch) == Literal(c, ch, LF, "HeaderValueLws")

\* HeaderValueLws committing the flag on a folded line as well
HeaderValueLws_commit_on_fold(c, ch) ==
    LET hs == c.p.header_state
        c1 == CASE hs = "ConnectionKeepAlive" ->
                    [c EXCEPT !.p.flags = @ \cup {"CONNECTION_KEEP_ALIVE"}]
                 [] hs = "ConnectionClose" ->
                    [c EXCEPT !.p.flags = @ \cup {"CONNECTION_CLOSE"}]
                 [] hs = "TransferEncodingChunked" ->
                    [c EXCEPT !.p.flags = @ \cup {"CHUNKED"}]
                 [] OTHER -> c
    IN IF ch = SP \/ ch = TAB THEN Retry(Goto(c1, "HeaderValueStart"))
       ELSE Retry(Goto(c1, "HeaderFieldStart"))

HeaderValueLws(c, ch) ==
    IF ch = SP \/ ch = TAB THEN Retry(Goto(c, "HeaderValueStart"))
    ELSE LET hs == c.p.header_state
             c1 == CASE hs = "ConnectionKeepAlive" ->
                         [c EXCEPT !.p.flags = @ \cup {"CONNECTION_KEEP_ALIVE"}]
                      [] hs = "ConnectionClose" ->
                         [c EXCEPT !.p.flags = @ \cup {"CONNECTION_CLOSE"}]
                      [] hs = "TransferEncodingChunked" ->
                         [c EXCEPT !.p.flags = @ \cup {"CHUNKED"}]
                      [] OTHER -> c
         IN Retry(Goto(c1, "HeaderFieldStart"))

HeaderValueDiscardWsAlmostDone(c, ch) ==
    Literal(c, ch, LF, "HeaderValueDiscardLws")

\* an empty header value that is not reported
HeaderValueDiscardLws_silent(c, ch) ==
    IF ch = SP \/ ch = TAB THEN Goto(c, "HeaderValueDiscardWs")
    ELSE Retry(Goto(c, "HeaderFieldStart"))

HeaderValueDiscardLws(c, ch) ==
    IF ch = SP \/ ch = TAB THEN Goto(c, "HeaderValueDiscardWs")
    ELSE LET c1 == emit(Goto(mark(c, "header_value_mark", c.index),
                             "HeaderFieldStart"),
                        "header_value_mark", "on_header_value", "CBHeaderValue",
                        c.index, c.index)
         IN IF Running(c1) THEN Retry(c1) ELSE c1

\* the end of a header block that does not listen to on_headers_complete's
\* decision
HeadersAlmostDone_deaf(c, ch) ==
    IF strict_check(c, ch # LF) THEN Fail(c, "Strict", c.index)
    ELSE IF "TRAILING" \in c.p.flags
    THEN notify(Goto(c, new_message(c.p)), "on_message_complete",
                "CBMessageComplete", c.index + 1)
    ELSE LET c1 == [c EXCEPT !.p.state = "HeadersDone",
                             !.p.upgrade = ("UPGRADE" \in c.p.flags) \/
                                           c.p.method = "Connect"]
             c2 == [c1 EXCEPT !.ev = Append(@, CallbackEvent(c1,
                                                 "on_headers_complete", <<>>))]
         IN IF c.cb.fail = "on_headers_complete"
            THEN Fail(c2, "CBHeadersComplete", c.index)
            ELSE Retry(c2)

\* the end of a header block that treats a trailer block like the first one
HeadersAlmostDone_again(c, ch) ==
    IF strict_check(c, ch # LF) THEN Fail(c, "Strict", c.index)
    ELSE LET c1 == [c EXCEPT !.p.state = "HeadersDone",
                             !.p.upgrade = ("UPGRADE" \in c.p.flags) \/
                                           c.p.method = "Connect"]
             c2 == [c1 EXCEPT !.ev = Append(@, CallbackEvent(c1,
                                                 "on_headers_complete", <<>>))]
         IN IF c.cb.fail = "on_headers_complete"
            THEN Fail(c2, "CBHeadersComplete", c.index)
            ELSE IF c.cb.decision = "SkipBody"
            THEN Retry([c2 EXCEPT !.p.flags = @ \cup {"SKIPBODY"}])
            ELSE Retry(c2)

HeadersAlmostDone(c, ch) ==
    IF strict_check(c, ch # LF) THEN Fail(c, "Strict", c.index)
    ELSE IF "TRAILING" \in c.p.flags
    THEN notify(Goto(c, new_message(c.p)), "on_message_complete",
                "CBMessageComplete", c.index + 1)
    ELSE LET c1 == [c EXCEPT !.p.state = "HeadersDone",
                             !.p.upgrade = ("UPGRADE" \in c.p.flags) \/
                                           c.p.method = "Connect"]
             c2 == [c1 EXCEPT !.ev = Append(@, CallbackEvent(c1,
                                                 "on_headers_complete", <<>>))]
         IN IF c.cb.fail = "on_headers_complete"
            THEN Fail(c2, "CBHeadersComplete", c.index)
            ELSE IF c.cb.decision = "SkipBody"
            THEN Retry([c2 EXCEPT !.p.flags = @ \cup {"SKIPBODY"}])
            ELSE Retry(c2)

\* `self.state = new_message!(self)` and the on_message_complete callback
MessageComplete(c) ==
    notify(Goto(c, new_message(c.p)), "on_message_complete",
           "CBMessageComplete", c.index + 1)

\* an end of the header section that parses on after an upgrade
HeadersDone_parses_on(c, ch) ==
    IF strict_check(c, ch # LF) THEN Fail(c, "Strict", c.index)
    ELSE LET c1 == [c EXCEPT !.p.nread = 0]
         IN IF c1.p.upgrade
            THEN MessageComplete(c1)
            ELSE IF "SKIPBODY" \in c1.p.flags THEN MessageComplete(c1)
            ELSE IF "CHUNKED" \in c1.p.flags THEN Goto(c1, "ChunkSizeStart")
            ELSE IF c1.p.content_length = U64(0) THEN MessageComplete(c1)
            ELSE IF c1.p.content_length # ULLONG_MAX THEN Goto(c1, "BodyIdentity")
            ELSE IF c1.p.tp = "Request" \/ ~http_message_needs_eof(c1.p)
            THEN MessageComplete(c1)
            ELSE Goto(c1, "BodyIdentityEof")

\* an end of the header section that looks at Content-Length before CHUNKED
HeadersDone_length_first(c, ch) ==
    IF strict_check(c, ch # LF) THEN Fail(c, "Strict", c.index)
    ELSE LET c1 == [c EXCEPT !.p.nread = 0]
         IN IF c1.p.upgrade
            THEN LET c2 == MessageComplete(c1)
                 IN IF Running(c2) THEN Return(c2, c.index + 1) ELSE c2
            ELSE IF "SKIPBODY" \in c1.p.flags THEN MessageComplete(c1)
            ELSE IF c1.p.content_length = U64(0) THEN MessageComplete(c1)
            ELSE IF c1.p.content_length # ULLONG_MAX THEN Goto(c1, "BodyIdentity")
            ELSE IF "CHUNKED" \in c1.p.flags THEN Goto(c1, "ChunkSizeStart")
            ELSE IF c1.p.tp = "Request" \/ ~http_message_needs_eof(c1.p)
            THEN MessageComplete(c1)
            ELSE Goto(c1, "BodyIdentityEof")

\* an end of the header section that leaves nread as the headers made it
HeadersDone_keeps_nread(c, ch) ==
    IF strict_check(c, ch # LF) THEN Fail(c, "Strict", c.index)
    ELSE IF c.p.upgrade
    THEN LET c2 == MessageComplete(c)
         IN IF Running(c2) THEN Return(c2, c.index + 1) ELSE c2
    ELSE IF "SKIPBODY" \in c.p.flags THEN MessageComplete(c)
    ELSE IF "CHUNKED" \in c.p.flags THEN Goto(c, "ChunkSizeStart")
    ELSE IF c.p.content_length = U64(0) THEN MessageComplete(c)
    ELSE IF c.p.content_length # ULLONG_MAX THEN Goto(c, "BodyIdentity")
    ELSE IF c.p.tp = "Request" \/ ~http_message_needs_eof(c.p)
    THEN MessageComplete(c)
    ELSE Goto(c, "BodyIdentityEof")

HeadersDone(c, ch) ==
    IF strict_check(c, ch # LF) THEN Fail(c, "Strict", c.index)
    ELSE LET c1 == [c EXCEPT !.p.nread = 0]
         IN IF c1.p.upgrade
            THEN LET c2 == MessageComplete(c1)
                 IN IF Running(c2) THEN Return(c2, c.index + 1) ELSE c2
            ELSE IF "SKIPBODY" \in c1.p.flags THEN MessageComplete(c1)
            ELSE IF "CHUNKED" \in c1.p.flags THEN Goto(c1, "ChunkSizeStart")
            ELSE IF c1.p.content_length = U64(0) THEN MessageComplete(c1)
            ELSE IF c1.p.content_length # ULLONG_MAX THEN Goto(c1, "BodyIdentity")
            ELSE IF c1.p.tp = "Request" \/ ~http_message_needs_eof(c1.p)
            THEN MessageComplete(c1)
            ELSE Goto(c1, "BodyIdentityEof")

\* a body state that takes the rest of the chunk whatever content_length says
BodyIdentity_rest_of_chunk(c, ch) ==
    LET rest == Len(c.data) - c.index
        to_read == U64Min(c.p.content_length, rest)
    IN IF ~(c.p.content_length # U64(0) /\ c.p.content_length # ULLONG_MAX)
       THEN Panic(c)
       ELSE LET c1 == [mark(c, "body_mark", c.index) EXCEPT
                          !.p.content_length = U64Sub(@, to_read),
                          !.index = @ + rest - 1]
            IN IF c1.p.content_length = U64(0)
               THEN LET c2 == emit(Goto(c1, "MessageDone"), "body_mark",
                                   "on_body", "CBBody", c1.index + 1, c1.index)
                    IN IF Running(c2) THEN Retry(c2) ELSE c2
               ELSE c1

BodyIdentity(c, ch) ==
    LET to_read == U64Min(c.p.content_length, Len(c.data) - c.index)
    IN IF ~(c.p.content_length # U64(0) /\ c.p.content_length # ULLONG_MAX)
       THEN Panic(c)
       ELSE LET c1 == [mark(c, "body_mark", c.index) EXCEPT
                          !.p.content_length = U64Sub(@, to_read),
                          !.index = @ + to_read - 1]
            IN IF c1.p.content_length = U64(0)
               THEN LET c2 == emit(Goto(c1, "MessageDone"), "body_mark",
                                   "on_body", "CBBody", c1.index + 1, c1.index)
                    IN IF Running(c2) THEN Retry(c2) ELSE c2
               ELSE c1

\* a body state that wants to see its byte again
BodyIdentityEof_sees_byte_again(c, ch) ==
    [mark(c, "body_mark", c.index) EXCEPT !.index = c.index - 1]

BodyIdentityEof(c, ch) ==
    [mark(c, "body_mark", c.index) EXCEPT !.index = Len(c.data) - 1]

MessageDone(c, ch) == MessageComplete(c)

ChunkSizeStart(c, ch) ==
    IF c.p.nread # 1 \/ "CHUNKED" \notin c.p.flags THEN Panic(c)
    ELSE IF UNHEX[ch + 1] = None THEN Fail(c, "InvalidChunkSize", c.index)
    ELSE [c EXCEPT !.p.content_length = U64(UNHEX[ch + 1]),
                   !.p.state = "ChunkSize"]

ChunkSize(c, ch) ==
    IF "CHUNKED" \notin c.p.flags THEN Panic(c)
    ELSE IF ch = CR THEN Goto(c, "ChunkSizeAlmostDone")
    ELSE IF UNHEX[ch + 1] = None
    THEN IF ch = Ord(";") \/ ch = SP THEN Goto(c, "ChunkParameters")
         ELSE Fail(c, "InvalidChunkSize", c.index)
    ELSE push_digit(c, 16, UNHEX[ch + 1], "InvalidContentLength")

ChunkParameters(c, ch) ==
    IF "CHUNKED" \notin c.p.flags THEN Panic(c)
    ELSE IF ch = CR THEN Goto(c, "ChunkSizeAlmostDone")
    ELSE c

ChunkSizeAlmostDone(c, ch) ==
    IF "CHUNKED" \notin c.p.flags THEN Panic(c)
    ELSE IF strict_check(c, ch # LF) THEN Fail(c, "Strict", c.index)
    ELSE IF c.p.content_length = U64(0)
    THEN [c EXCEPT !.p.nread = 0, !.p.flags = @ \cup {"TRAILING"},
                   !.p.state = "HeaderFieldStart"]
    ELSE [c EXCEPT !.p.nread = 0, !.p.state = "ChunkData"]

\* a chunk-data state that takes the rest of the call's chunk
ChunkData_rest_of_chunk(c, ch) ==
    LET rest == Len(c.data) - c.index
        to_read == U64Min(c.p.content_length, rest)
    IN IF "CHUNKED" \notin c.p.flags \/
          ~(c.p.content_length # U64(0) /\ c.p.content_length # ULLONG_MAX)
       THEN Panic(c)
       ELSE LET c1 == [mark(c, "body_mark", c.index) EXCEPT
                          !.p.content_length = U64Sub(@, to_read),
                          !.index = @ + rest - 1]
            IN IF c1.p.content_length = U64(0)
               THEN Goto(c1, "ChunkDataAlmostDone")
               ELSE c1

ChunkData(c, ch) ==
    LET to_read == U64Min(c.p.content_length, Len(c.data) - c.index)
    IN IF "CHUNKED" \notin c.p.flags \/
          ~(c.p.content_length # U64(0) /\ c.p.content_length # ULLONG_MAX)
       THEN Panic(c)
       ELSE LET c1 == [mark(c, "body_mark", c.index) EXCEPT
                          !.p.content_length = U64Sub(@, to_read),
                          !.index = @ + to_read - 1]
            IN IF c1.p.content_length = U64(0)
               THEN Goto(c1, "ChunkDataAlmostDone")
               ELSE c1

ChunkDataAlmostDone(c, ch) ==
    IF "CHUNKED" \notin c.p.flags \/ c.p.content_length # U64(0) THEN Panic(c)
    ELSE IF strict_check(c, ch # CR) THEN Fail(c, "Strict", c.index)
    ELSE emit(Goto(c, "ChunkDataDone"), "body_mark", "on_body", "CBBody",
              c.index, c.index + 1)

ChunkDataDone(c, ch) ==
    IF "CHUNKED" \notin c.p.flags THEN Panic(c)
    ELSE IF strict_check(c, ch # LF) THEN Fail(c, "Strict", c.index)
    ELSE [c EXCEPT !.p.nread = 0, !.p.state = "ChunkSizeStart"]

-----------------------------------------------------------------------------
(* The byte loop.                                                          *)

\* `match self.state { ... }` on the byte ch
Dispatch(c, ch) ==
    LET s == c.p.state
    IN CASE s = "Dead" -> Dead(c, ch)
         [] s = "StartReqOrRes" -> StartReqOrRes(c, ch)
         [] s = "ResOrRespH" -> ResOrRespH(c, ch)
         [] s = "StartRes" -> StartRes(c, ch)
         [] s = "ResH" -> ResH(c, ch)
         [] s = "ResHT" -> ResHT(c, ch)
         [] s = "ResHTT" -> ResHTT(c, ch)
         [] s = "ResHTTP" -> ResHTTP(c, ch)
         [] s = "ResFirstHttpMajor" -> ResFirstHttpMajor(c, ch)
         [] s = "ResHttpMajor" -> ResHttpMajor(c, ch)
         [] s = "ResFirstHttpMinor" -> ResFirstHttpMinor(c, ch)
         [] s = "ResHttpMinor" -> ResHttpMinor(c, ch)
         [] s = "ResFirstStatusCode" -> ResFirstStatusCode(c, ch)
         [] s = "ResStatusCode" -> ResStatusCode(c, ch)
         [] s = "ResStatusStart" -> ResStatusStart(c, ch)
         [] s = "ResStatus" -> ResStatus(c, ch)
         [] s = "ResLineAlmostDone" -> ResLineAlmostDone(c, ch)
         [] s = "StartReq" -> StartReq(c, ch)
         [] s = "ReqMethod" -> ReqMethod(c, ch)
         [] s = "ReqSpacesBeforeUrl" -> ReqSpacesBeforeUrl(c, ch)
         [] s \in {"ReqSchema", "ReqSchemaSlash", "ReqSchemaSlashSlash",
                   "ReqServerStart"} -> ReqSchemaStates(c, ch)
         [] s \in {"ReqServer", "ReqServerWithAt", "ReqPath",
                   "ReqQueryStringStart", "ReqQueryString", "ReqFragmentStart",
                   "ReqFragment"} -> ReqUrlStates(c, ch)
         [] s = "ReqHttpStart" -> ReqHttpStart(c, ch)
         [] s = "ReqHttpH" -> ReqHttpH(c, ch)
         [] s = "ReqHttpHT" -> ReqHttpHT(c, ch)
         [] s = "ReqHttpHTT" -> ReqHttpHTT(c, ch)
         [] s = "ReqHttpHTTP" -> ReqHttpHTTP(c, ch)
         [] s = "ReqFirstHttpMajor" -> ReqFirstHttpMajor(c, ch)
         [] s = "ReqHttpMajor" -> ReqHttpMajor(c, ch)
         [] s = "ReqFirstHttpMinor" -> ReqFirstHttpMinor(c, ch)
         [] s = "ReqHttpMinor" -> ReqHttpMinor(c, ch)
         [] s = "ReqLineAlmostDone" -> ReqLineAlmostDone(c, ch)
         [] s = "HeaderFieldStart" -> HeaderFieldStart(c, ch)
         [] s = "HeaderField" -> HeaderField(c, ch)
         [] s = "HeaderValueDiscardWs" -> HeaderValueDiscardWs(c, ch)
         [] s = "HeaderValueStart" -> HeaderValueStart(c, ch)
         [] s = "HeaderValue" -> HeaderValue(c, ch)
         [] s = "HeaderAlmostDone" -> HeaderAlmostDone(c, ch)
         [] s = "HeaderValueLws" -> HeaderValueLws(c, ch)
         [] s = "HeaderValueDiscardWsAlmostDone" ->
                HeaderValueDiscardWsAlmostDone(c, ch)
         [] s = "HeaderValueDiscardLws" -> HeaderValueDiscardLws(c, ch)
         [] s = "HeadersAlmostDone" -> HeadersAlmostDone(c, ch)
         [] s = "HeadersDone" -> HeadersDone(c, ch)
         [] s = "BodyIdentity" -> BodyIdentity(c, ch)
         [] s = "BodyIdentityEof" -> BodyIdentityEof(c, ch)
         [] s = "MessageDone" -> MessageDone(c, ch)
         [] s = "ChunkSizeStart" -> ChunkSizeStart(c, ch)
         [] s = "ChunkSize" -> ChunkSize(c, ch)
         [] s = "ChunkParameters" -> ChunkParameters(c, ch)
         [] s = "ChunkSizeAlmostDone" -> ChunkSizeAlmostDone(c, ch)
         [] s = "ChunkData" -> ChunkData(c, ch)
         [] s = "ChunkDataAlmostDone" -> ChunkDataAlmostDone(c, ch)
         [] s = "ChunkDataDone" -> ChunkDataDone(c, ch)

\* the inner `loop` that mimics `goto reexecute_byte`
RECURSIVE Reexecute(_, _)

\* `if !retry { break }`: c is the locals after the match
BreakUnlessRetry(c, ch) ==
    IF Running(c) /\ c.retry THEN Reexecute(c, ch) ELSE c

\* `loop { retry = false; match self.state { .. } if !retry { break } }`
Reexecute(c, ch) == BreakUnlessRetry(Dispatch([c EXCEPT !.retry = FALSE], ch), ch)

\* `index += 1` at the end of an iteration that has not returned
NextIndex(c) == IF Running(c) THEN [c EXCEPT !.index = @ + 1] ELSE c

\* an iteration that allows a header section of 80,000 bytes
ByteStep_limit_80000(c) ==
    LET ch == c.data[c.index + 1]
        c1 == IF ParsingHeader(c.p.state) THEN [c EXCEPT !.p.nread = @ + 1] ELSE c
    IN IF ParsingHeader(c.p.state) /\ c1.p.nread > 80000
       THEN Fail(c1, "HeaderOverflow", c.index)
       ELSE NextIndex(Reexecute(c1, ch))

\* one iteration of `while index < len`
ByteStep(c) ==
    LET ch == c.data[c.index + 1]
        c1 == IF ParsingHeader(c.p.state) THEN [c EXCEPT !.p.nread = @ + 1] ELSE c
    IN IF ParsingHeader(c.p.state) /\ c1.p.nread > HTTP_MAX_HEADER_SIZE
       THEN Fail(c1, "HeaderOverflow", c.index)
       ELSE NextIndex(Reexecute(c1, ch))

\* at most n iterations of `while index < len`; the iterations are split in
\* halves so that a chunk of HTTP_MAX_HEADER_SIZE bytes nests a few levels deep
RECURSIVE Iterate(_, _)
Iterate(c, n) ==
    IF ~(Running(c) /\ c.index < Len(c.data)) THEN c
    ELSE IF n <= 1 THEN ByteStep(c)
    ELSE Iterate(Iterate(c, n \div 2), n - (n \div 2))

\* `while index < len`: every iteration consumes at least one byte
ByteLoop(c) == Iterate(c, Len(c.data) - c.index)

MarkNames ==
    <<"header_field_mark", "header_value_mark", "url_mark", "body_mark",
      "status_mark">>

OpenMarks(c) == {i \in 1..Len(MarkNames) : c[MarkNames[i]] # None}

\* one callback_data! of the series after the loop
Flush(c, m, kind, err) ==
    IF Running(c) THEN callback_data(c, m, kind, err, c.index, c.index) ELSE c

\* `return len` after the series
Exhausted(c) == IF Running(c) THEN Return(c, Len(c.data)) ELSE c

\* a call that drops the spans left open when the chunk has run out
Leftover_dropped(c) ==
    IF Cardinality(OpenMarks(c)) > 1 THEN Panic(c)
    ELSE Exhausted(c)

\* the callbacks for the marks left over when the chunk has run out
Leftover(c) ==
    IF Cardinality(OpenMarks(c)) > 1 THEN Panic(c)
    ELSE Exhausted(
           Flush(
             Flush(
               Flush(
                 Flush(
                   Flush(c, "header_field_mark", "on_header_field", "CBHeaderField"),
                   "header_value_mark", "on_header_value", "CBHeaderValue"),
                 "url_mark", "on_url", "CBUrl"),
               "body_mark", "on_body", "CBBody"),
             "status_mark", "on_status", "CBStatus"))

UrlStates ==
    {"ReqPath", "ReqSchema", "ReqSchemaSlash", "ReqSchemaSlashSlash",
     "ReqServerStart", "ReqServer", "ReqServerWithAt", "ReqQueryStringStart",
     "ReqQueryString", "ReqFragmentStart", "ReqFragment"}

\* locals whose marks are never pre-seeded
Locals_no_marks(hp, cb, data, chk) ==
    [p |-> hp, cb |-> cb, data |-> data, checked |-> chk, index |-> 0,
     header_field_mark |-> None, header_value_mark |-> None, url_mark |-> None,
     body_mark |-> None, status_mark |-> None,
     ev |-> <<>>, ret |-> None, panic |-> FALSE, retry |-> FALSE]

\* locals that start every call with the match index at 0
Locals_index_reset(hp, cb, data, chk) ==
    [p |-> [hp EXCEPT !.index = 0], cb |-> cb, data |-> data, checked |-> chk,
     index |-> 0,
     header_field_mark |-> IF hp.state = "HeaderField" THEN 0 ELSE None,
     header_value_mark |-> IF hp.state = "HeaderValue" THEN 0 ELSE None,
     url_mark          |-> IF hp.state \in UrlStates THEN 0 ELSE None,
     body_mark         |-> None,
     status_mark       |-> IF hp.state = "ResStatus" THEN 0 ELSE None,
     ev |-> <<>>, ret |-> None, panic |-> FALSE, retry |-> FALSE]

\* the locals of a call of execute, marks pre-seeded from the state
Locals(hp, cb, data, chk) ==
    [p |-> hp, cb |-> cb, data |-> data, checked |-> chk, index |-> 0,
     header_field_mark |-> IF hp.state = "HeaderField" THEN 0 ELSE None,
     header_value_mark |-> IF hp.state = "HeaderValue" THEN 0 ELSE None,
     url_mark          |-> IF hp.state \in UrlStates THEN 0 ELSE None,
     body_mark         |-> None,
     status_mark       |-> IF hp.state = "ResStatus" THEN 0 ELSE None,
     ev |-> <<>>, ret |-> None, panic |-> FALSE, retry |-> FALSE]

\* an EOF that every state accepts
ExecuteEof_any_state(c) ==
    IF c.p.state = "BodyIdentityEof"
    THEN LET c1 == notify(c, "on_message_complete", "CBMessageComplete", c.index)
         IN IF Running(c1) THEN Return(c1, 0) ELSE c1
    ELSE Return(c, 0)

\* execute on an empty chunk: EOF
ExecuteEof(c) ==
    IF c.p.state = "BodyIdentityEof"
    THEN LET c1 == notify(c, "on_message_complete", "CBMessageComplete", c.index)
         IN IF Running(c1) THEN Return(c1, 0) ELSE c1
    ELSE IF c.p.state \in {"Dead", "StartReqOrRes", "StartReq", "StartRes"}
    THEN Return(c, 0)
    ELSE Fail(c, "InvalidEofState", 1)

\* what follows the loop: c is the locals when the loop has ended
AfterLoop(c) == IF Running(c) THEN Leftover(c) ELSE c

\* execute without the early return on a set errno
execute_ignores_errno(hp, cb, data, chk) ==
    LET c == Locals(hp, cb, data, chk)
    IN IF Len(data) = 0 THEN ExecuteEof(c)
       ELSE AfterLoop(ByteLoop(c))

\* HttpParser::execute: the locals when the call ends
execute(hp, cb, data, chk) ==
    LET c == Locals(hp, cb, data, chk)
    IN IF hp.errno # NoErr THEN Return(c, 0)
       ELSE IF Len(data) = 0 THEN ExecuteEof(c)
       ELSE AfterLoop(ByteLoop(c))

\* pause that does not look at the kind of the error it overwrites
pause_any_errno(hp, b) ==
    [p |-> [hp EXCEPT !.errno = IF b THEN "Paused" ELSE NoErr], panic |-> FALSE]

\* a pause whose second pause(true) releases the latch
pause_toggles(hp, b) ==
    IF hp.errno = NoErr \/ hp.errno = "Paused"
    THEN [p |-> [hp EXCEPT !.errno = IF b /\ hp.errno = NoErr THEN "Paused"
                                     ELSE NoErr],
          panic |-> FALSE]
    ELSE [p |-> hp, panic |-> TRUE]

\* a pause whose release also forgets the header bytes counted so far
pause_forgets_nread(hp, b) ==
    IF hp.errno = NoErr \/ hp.errno = "Paused"
    THEN [p |-> [hp EXCEPT !.errno = IF b THEN "Paused" ELSE NoErr,
                           !.nread = IF b THEN @ ELSE 0],
          panic |-> FALSE]
    ELSE [p |-> hp, panic |-> TRUE]

\* HttpParser::pause: the parser after the call, and whether the call panicked
pause(hp, b) ==
    IF hp.errno = NoErr \/ hp.errno = "Paused"
    THEN [p |-> [hp EXCEPT !.errno = IF b THEN "Paused" ELSE NoErr],
          panic |-> FALSE]
    ELSE [p |-> hp, panic |-> TRUE]

-----------------------------------------------------------------------------
(* The inputs.                                                             *)

CRLF == <<CR, LF>>

GetRoot == B(<<"G","E","T"," ","/"," ","H","T","T","P","/","1",".","1">>) \o CRLF

Status200 ==
    B(<<"H","T","T","P","/","1",".","1"," ","2","0","0"," ","O","K">>) \o CRLF

ContentLengthField ==
    B(<<"C","o","n","t","e","n","t","-","L","e","n","g","t","h",":"," ">>)

Hello == B(<<"h","e","l","l","o">>)

\* scenario 1 of the specification: a minimal GET
MinimalGet == GetRoot \o CRLF

\* scenario 2: a response with Content-Length: 5
ContentLengthResponse ==
    Status200 \o ContentLengthField \o B(<<"5">>) \o CRLF \o CRLF \o Hello

\* scenario 3: a chunked request
ChunkedRequest ==
    B(<<"P","O","S","T"," ","/","x"," ","H","T","T","P","/","1",".","1">>) \o CRLF
    \o B(<<"T","r","a","n","s","f","e","r","-","E","n","c","o","d","i","n","g",":",
           " ","c","h","u","n","k","e","d">>) \o CRLF \o CRLF
    \o B(<<"5">>) \o CRLF \o Hello \o CRLF \o B(<<"0">>) \o CRLF \o CRLF

\* scenario 4: an upgrade, followed by bytes of the other protocol
UpgradeRequest ==
    GetRoot
    \o B(<<"U","p","g","r","a","d","e",":"," ","w","s">>) \o CRLF
    \o B(<<"C","o","n","n","e","c","t","i","o","n",":"," ","U","p","g","r","a","d","e">>)
    \o CRLF \o CRLF \o B(<<"R","A","W">>)

\* a response whose body ends with the connection
EofResponse ==
    B(<<"H","T","T","P","/","1",".","0"," ","2","0","0"," ","O","K">>) \o CRLF
    \o CRLF \o Hello

\* a HEAD request: in Both mode its first byte may start a response too
HeadRequest ==
    B(<<"H","E","A","D"," ","/"," ","H","T","T","P","/","1",".","1">>) \o CRLF \o CRLF

\* a CONNECT request, followed by bytes of the tunnel
ConnectRequest ==
    B(<<"C","O","N","N","E","C","T"," ","h",":","1"," ","H","T","T","P","/","1",".","1">>)
    \o CRLF \o CRLF \o B(<<"R","A","W">>)

\* two pipelined requests with an empty line between them; the second one
\* asks for the connection to be closed
PipelinedRequests ==
    MinimalGet \o CRLF
    \o B(<<"G","E","T"," ","h","t","t","p",":","/","/","u","@","h","/","p","?","q","#","f",
           " ","H","T","T","P","/","1",".","1">>) \o CRLF
    \o B(<<"C","o","n","n","e","c","t","i","o","n",":"," ","c","l","o","s","e">>)
    \o CRLF \o CRLF \o MinimalGet

\* two pipelined responses, each preceded by an empty line
PipelinedResponses ==
    CRLF \o B(<<"H","T","T","P","/","1",".","1"," ","2","0","4"," ","N">>) \o CRLF
    \o B(<<"P","r","o","x","y","-","C","o","n","n","e","c","t","i","o","n",":"," ",
           "k","e","e","p","-","a","l","i","v","e">>) \o CRLF \o CRLF
    \o CRLF \o B(<<"H","T","T","P","/","1",".","1"," ","3","0","4">>) \o CRLF \o CRLF

\* header lines ended by a bare LF, an empty value, a folded value
FoldedHeaders ==
    B(<<"G","E","T"," ","/","p"," ","H","T","T","P","/","1",".","0","\n",
        "H","o","s","t",":","\n",
        "X","-","a",":"," ","b","\n","\t","c","\r","\n",
        "C","o","n","n","e","c","t","i","o","n",":"," ","k","e","e","p","-","a","l","i","v","e",
        "\n","\n">>)

\* a tab in the URL: an error in strict mode only
TabInUrl ==
    B(<<"G","E","T"," ","/","a","b","\t","c"," ","H","T","T","P","/","1",".","1">>)
    \o CRLF \o CRLF

\* a header name that is no token
BadHeaderName ==
    GetRoot \o B(<<"B","a","d","(","n","a","m","e",":"," ","x">>) \o CRLF \o CRLF

\* a status line with a reason phrase, then a malformed Content-Length
BadContentLength ==
    B(<<"H","T","T","P","/","1",".","1"," ","4","0","4"," ","N","o","t"," ","F","o","u","n","d">>)
    \o CRLF \o ContentLengthField \o B(<<"1","x">>) \o CRLF \o CRLF

\* the decimal digits of n < 100 and the hexadecimal digits of n < 256
Dec(n) ==
    IF n < 10 THEN <<Ord("0") + n>>
    ELSE <<Ord("0") + (n \div 10), Ord("0") + (n % 10)>>

HexDigit(d) == IF d < 10 THEN Ord("0") + d ELSE Ord("a") + (d - 10)

Hex(n) == IF n < 16 THEN <<HexDigit(n)>> ELSE <<HexDigit(n \div 16), HexDigit(n % 16)>>

\* body bytes: they look like line ends, chunk sizes and a request line
BodyText ==
    B(<<"a","\r","\n","0","\r","\n","\r","\n","G","E","T"," ","/"," ","H","T","T","P">>)

Payload(n) == SubSeq(BodyText, 1, n)

MaxBodyLen == 3
LongBodyLen == 12

BodyLengths == (0..MaxBodyLen) \cup {LongBodyLen}

\* a request with Content-Length: n and its body, followed by a second request
ContentLengthRequest(n) ==
    B(<<"P","U","T"," ","/","f"," ","H","T","T","P","/","1",".","1">>) \o CRLF
    \o ContentLengthField \o Dec(n) \o CRLF \o CRLF \o Payload(n) \o MinimalGet

\* a response with Content-Length: n (spaces after the digits) and its body
ContentLengthReply(n) ==
    Status200 \o ContentLengthField \o Dec(n) \o <<SP, SP>> \o CRLF \o CRLF
    \o Payload(n)

ContentLengthInputs ==
    {ContentLengthRequest(n) : n \in BodyLengths}
    \cup {ContentLengthReply(n) : n \in BodyLengths}

MaxPart == 10
MaxParts == 2

\* the bodies: sequences of at most MaxParts parts, short and long ones in
\* turn; part i of sizes holds sizes[i] bytes of BodyText
Bodies ==
    {[i \in 1..k |-> IF i % 2 = 1 THEN 2 ELSE MaxPart] : k \in 0..MaxParts}
    \cup {<<MaxPart>>}

RECURSIVE Concat(_)
Concat(ss) == IF ss = <<>> THEN <<>> ELSE Head(ss) \o Concat(Tail(ss))

\* the payload of a body
Decoded(sizes) == Concat([i \in 1..Len(sizes) |-> Payload(sizes[i])])

TransferEncodingChunked ==
    B(<<"T","r","a","n","s","f","e","r","-","E","n","c","o","d","i","n","g",":",
        " ","c","h","u","n","k","e","d">>) \o CRLF

\* a chunked request: plain size lines, no trailer
ChunkedPost(sizes) ==
    B(<<"P","O","S","T"," ","/","x"," ","H","T","T","P","/","1",".","1">>) \o CRLF
    \o TransferEncodingChunked \o CRLF
    \o Concat([i \in 1..Len(sizes) |->
                  Hex(sizes[i]) \o CRLF \o Payload(sizes[i]) \o CRLF])
    \o B(<<"0">>) \o CRLF \o CRLF

\* a chunked response: size lines with a leading zero and a chunk extension,
\* and a trailer section
ChunkedReply(sizes) ==
    Status200 \o TransferEncodingChunked \o CRLF
    \o Concat([i \in 1..Len(sizes) |->
                  B(<<"0">>) \o Hex(sizes[i]) \o B(<<";","x","=","1">>) \o CRLF
                  \o Payload(sizes[i]) \o CRLF])
    \o B(<<"0","0"," ">>) \o CRLF \o B(<<"T",":","v">>) \o CRLF \o CRLF

ChunkedInputs ==
    {ChunkedPost(sizes) : sizes \in Bodies} \cup {ChunkedReply(sizes) : sizes \in Bodies}

NamedInputs ==
    {MinimalGet, ContentLengthResponse, ChunkedRequest, UpgradeRequest,
     EofResponse, HeadRequest, ConnectRequest, PipelinedRequests,
     PipelinedResponses, FoldedHeaders, TabInUrl, BadHeaderName,
     BadContentLength}

FeedInputs == NamedInputs \cup ContentLengthInputs \cup ChunkedInputs

Inputs == {MinimalGet, ContentLengthResponse, ChunkedRequest, EofResponse,
           TabInUrl}

CallbackKinds ==
    {"on_message_begin", "on_url", "on_status", "on_header_field",
     "on_header_value", "on_headers_complete", "on_body", "on_message_complete"}

DataKinds == {"on_url", "on_status", "on_header_field", "on_header_value", "on_body"}

GoodSink == [fail |-> "none", decision |-> "Nothing"]

\* the sinks one of whose callbacks reports an error
FailingSinks == [fail : CallbackKinds, decision : {"Nothing"}]

Types == {"Request", "Response", "Both"}

Scenarios ==
    [tp : Types, strict : BOOLEAN, checked : {FALSE}, cb : {GoodSink},
     input : Inputs]
    \cup [tp : {"Both"}, strict : {TRUE}, checked : {FALSE}, cb : FailingSinks,
          input : {ContentLengthResponse, ChunkedRequest}]

FeedScenarios ==
    [tp : Types, strict : BOOLEAN, checked : {FALSE}, cb : {GoodSink},
     input : FeedInputs]

-----------------------------------------------------------------------------
(* The embedder: it creates a parser, feeds it the input in chunks of any  *)
(* length, may signal EOF, and may pause and resume.                       *)

MaxChunk == 3
MaxEof == 2

\* the sink's record of a call's callbacks appended to its record so far: the
\* slices of consecutive callbacks of one kind are concatenated
RECURSIVE Deliver(_, _)
Deliver(l, ev) ==
    IF ev = <<>> THEN l
    ELSE LET e == Head(ev)
         IN IF e.k \in DataKinds /\ l # <<>> /\ l[Len(l)].k = e.k
            THEN Deliver([l EXCEPT ![Len(l)].d = @ \o e.d], Tail(ev))
            ELSE Deliver(Append(l, [k |-> e.k, d |-> e.d, flags |-> e.flags]),
                         Tail(ev))

Start(scenarios) ==
    \E sc \in scenarios :
        /\ parser = [new(sc.tp) EXCEPT !.strict = sc.strict]
        /\ created = [new(sc.tp) EXCEPT !.strict = sc.strict]
        /\ sink = sc.cb
        /\ checked = sc.checked
        /\ input = sc.input
        /\ pos = 0
        /\ log = <<>>
        /\ events = <<>>
        /\ ret = None
        /\ lastlen = 0
        /\ before = [new(sc.tp) EXCEPT !.strict = sc.strict]
        /\ op = "new"
        /\ eofs = 0
        /\ panicked = FALSE
        /\ unpaused = [p |-> [new(sc.tp) EXCEPT !.strict = sc.strict],
                       log |-> <<>>, pos |-> 0, ret |-> None,
                       resumed |-> FALSE]

ChunkLengths == {n \in 1..(Len(input) - pos) : n <= MaxChunk \/ n = Len(input) - pos}

\* what the embedder sees of a call of execute that ended with the locals c
Observed(c, data, name) ==
    /\ parser' = c.p
    /\ events' = c.ev
    /\ log' = Deliver(log, c.ev)
    /\ ret' = c.ret
    /\ lastlen' = Len(data)
    /\ pos' = IF c.panic \/ Len(data) = 0 THEN pos ELSE pos + c.ret
    /\ before' = parser
    /\ op' = name
    /\ panicked' = c.panic
    /\ UNCHANGED <<created, sink, checked, input>>

\* the never-paused parse after its call of execute that ended with the
\* locals c
Unpaused(c, data) ==
    [p |-> c.p,
     log |-> Deliver(unpaused.log, c.ev),
     pos |-> IF c.panic \/ Len(data) = 0 THEN unpaused.pos
             ELSE unpaused.pos + c.ret,
     ret |-> c.ret,
     resumed |-> unpaused.resumed]

\* the never-paused parse makes the call that ended with the locals c unless
\* the parser is paused; execute is a function of the parser, the sink and the
\* chunk, so that its call on an equal parser ends with the same locals
Shadowed(c, data) ==
    unpaused' = IF parser.errno = "Paused" THEN unpaused
                ELSE IF unpaused.p = parser THEN Unpaused(c, data)
                ELSE Unpaused(execute(unpaused.p, sink, data, checked), data)

ObservedBoth(c, data, name) == Observed(c, data, name) /\ Shadowed(c, data)

\* the state after a call of execute on the chunk data
Executed(data, name) ==
    \E c \in {execute(parser, sink, data, checked)} : ObservedBoth(c, data, name)

\* the embedder hands the next n bytes of the input to execute; once the
\* parser reports an upgrade the rest of the input is not the parser's
Execute ==
    /\ ~panicked
    /\ ~parser.upgrade
    /\ \E n \in ChunkLengths : Executed(SubSeq(input, pos + 1, pos + n), "execute")
    /\ UNCHANGED eofs

\* the embedder signals the end of the transport: execute on an empty chunk
Eof ==
    /\ ~panicked
    /\ eofs < MaxEof
    /\ Executed(<<>>, "eof")
    /\ eofs' = IF events' # <<>> THEN eofs + 1 ELSE eofs

Pause(b) ==
    /\ ~panicked
    /\ LET r == pause(parser, b)
       IN /\ parser' = r.p
          /\ panicked' = r.panic
    /\ before' = parser
    /\ op' = IF b THEN "pause" ELSE "resume"
    /\ events' = <<>>
    /\ ret' = None
    /\ lastlen' = 0
    /\ unpaused' = [unpaused EXCEPT
                        !.resumed = @ \/ (/\ ~b
                                           /\ parser.errno = "Paused"
                                           /\ 0 < pos
                                           /\ pos < Len(input))]
    /\ UNCHANGED <<created, sink, checked, input, pos, log, eofs>>

Init == Start(Scenarios)

Next == Execute \/ Eof \/ Pause(TRUE) \/ Pause(FALSE)

Spec == Init /\ [][Next]_vars

\* an embedder that only feeds the input
InitFeed == Start(FeedScenarios)

NextFeed == Execute

SpecFeed == InitFeed /\ [][NextFeed]_vars

\* a request whose lines all end with a bare LF
BareLfRequest ==
    B(<<"G","E","T"," ","/"," ","H","T","T","P","/","1",".","1","\n",
        "A",":"," ","b","\n","\n">>)

SinkInputs ==
    {ContentLengthResponse, ChunkedRequest, FoldedHeaders, EofResponse,
     BareLfRequest}

SinkScenarios ==
    [tp : Types, strict : BOOLEAN, checked : {FALSE}, cb : FailingSinks,
     input : SinkInputs]

\* an embedder one of whose callbacks reports an error
InitSink == Start(SinkScenarios)

NextSink == Execute \/ Eof

SpecSink == InitSink /\ [][NextSink]_vars

\* an embedder that feeds the input and may signal EOF at any point
InitEof == Start(FeedScenarios)

NextEof == Execute \/ Eof

SpecEof == InitEof /\ [][NextEof]_vars

\* messages that do or do not ask for an upgrade, each followed by the bytes
\* Raw: a GET, a CONNECT or a 101 response; with no Upgrade header, one with
\* an empty value, one with a value, or a header whose name only starts with
\* Upgrade; with no body framing, a Content-Length or chunked encoding
Raw == B(<<"R","A","W">>)

UpgradeDescriptors ==
    [start : {"GET", "CONNECT", "101"},
     upgrade : {"absent", "empty", "value", "other"},
     framing : {"none", "length", "chunked"}]

UpgradeStartLine(d) ==
    CASE d.start = "GET" -> GetRoot
      [] d.start = "CONNECT" ->
             B(<<"C","O","N","N","E","C","T"," ","h",":","1"," ",
                 "H","T","T","P","/","1",".","1">>) \o CRLF
      [] d.start = "101" ->
             B(<<"H","T","T","P","/","1",".","1"," ","1","0","1"," ","S">>) \o CRLF

UpgradeHeader(d) ==
    CASE d.upgrade = "absent" -> <<>>
      [] d.upgrade = "empty" -> B(<<"U","p","g","r","a","d","e",":"," ">>) \o CRLF
      [] d.upgrade = "value" ->
             B(<<"u","P","G","R","A","D","E",":"," ","w","s">>) \o CRLF
      [] d.upgrade = "other" ->
             B(<<"U","p","g","r","a","d","e","s",":"," ","w","s">>) \o CRLF

FramingHeader(d) ==
    CASE d.framing = "none" -> <<>>
      [] d.framing = "length" -> ContentLengthField \o B(<<"5">>) \o CRLF
      [] d.framing = "chunked" -> TransferEncodingChunked

UpgradeHeaderSection(d) ==
    UpgradeStartLine(d) \o UpgradeHeader(d) \o FramingHeader(d) \o CRLF

UpgradeMessage(d) == UpgradeHeaderSection(d) \o Raw

UpgradeInputs == {UpgradeMessage(d) : d \in UpgradeDescriptors}

UpgradeScenarios ==
    [tp : Types, strict : BOOLEAN, checked : {FALSE}, cb : {GoodSink},
     input : UpgradeInputs]

\* an embedder that feeds a message that may ask for an upgrade
InitUpgrade == Start(UpgradeScenarios)

NextUpgrade == Execute

SpecUpgrade == InitUpgrade /\ [][NextUpgrade]_vars

\* parser contexts on which an embedder may ask http_should_keep_alive: every
\* parser type, versions with each part among the smallest and the largest
\* the claim speaks of, every set of the flags the function reads, statuses
\* inside and outside 1xx, 204 and 304, content_length unset and set
MaxVersionPart == 99

VersionParts == {0, 1, 2, MaxVersionPart}

KeepAliveFlags ==
    SUBSET {"CONNECTION_KEEP_ALIVE", "CONNECTION_CLOSE", "CHUNKED", "SKIPBODY"}

StatusCodes == {0, 100, 199, 200, 204, 304, 404}

ContentLengths == {ULLONG_MAX, U64(0), U64(5)}

KeepAliveContexts ==
    {[new(tp) EXCEPT !.http_version = [major |-> ma, minor |-> mi],
                     !.flags = f,
                     !.status_code = s,
                     !.content_length = cl] :
        tp \in Types, ma \in VersionParts, mi \in VersionParts,
        f \in KeepAliveFlags, s \in StatusCodes, cl \in ContentLengths}

InitKeepAlive ==
    /\ parser \in KeepAliveContexts
    /\ created = parser
    /\ before = parser
    /\ sink = GoodSink
    /\ checked = FALSE
    /\ input = <<>>
    /\ pos = 0
    /\ log = <<>>
    /\ events = <<>>
    /\ ret = None
    /\ lastlen = 0
    /\ op = "new"
    /\ eofs = 0
    /\ panicked = FALSE
    /\ unpaused = [p |-> parser, log |-> <<>>, pos |-> 0, ret |-> None,
                   resumed |-> FALSE]

\* the embedder asks whether the connection may be kept open; ret is the
\* answer
ShouldKeepAlive ==
    /\ ret' = http_should_keep_alive(parser)
    /\ op' = "http_should_keep_alive"
    /\ before' = parser
    /\ UNCHANGED <<parser, created, sink, checked, input, pos, log, events,
                   lastlen, eofs, panicked, unpaused>>

NextKeepAlive == ShouldKeepAlive

SpecKeepAlive == InitKeepAlive /\ [][NextKeepAlive]_vars

\* messages one of whose lines ends with a bare LF: the start line (a request
\* line or a status line), the header line, the empty line that ends the
\* headers, or all three; the other lines end with CR LF
LineDescriptors ==
    [start : {"request", "response"},
     bare : {"start line", "header line", "end of headers", "all"}]

LineEnd(d, line) == IF d.bare \in {line, "all"} THEN <<LF>> ELSE CRLF

BareLfMessage(d) ==
    (IF d.start = "request"
     THEN B(<<"G","E","T"," ","/"," ","H","T","T","P","/","1",".","1">>)
     ELSE B(<<"H","T","T","P","/","1",".","1"," ","2","0","0"," ","O","K">>))
    \o LineEnd(d, "start line")
    \o ContentLengthField \o B(<<"0">>) \o LineEnd(d, "header line")
    \o LineEnd(d, "end of headers")

BareLfInputs == {BareLfMessage(d) : d \in LineDescriptors}

LineScenarios ==
    [tp : Types, strict : BOOLEAN, checked : {FALSE}, cb : {GoodSink},
     input : BareLfInputs]

\* an embedder that feeds a message with a bare LF
InitLines == Start(LineScenarios)

NextLines == Execute

SpecLines == InitLines /\ [][NextLines]_vars

\* requests whose header section has a given number of bytes: the request
\* line, one header X whose value is a run of the byte a, and the empty line
HeaderOfLength(total) ==
    GetRoot \o B(<<"X",":"," ">>)
    \o [i \in 1..(total - Len(GetRoot) - 7) |-> Ord("a")]
    \o CRLF \o CRLF

\* the overflow example of the specification: a value of 81000 bytes
OverflowExample ==
    GetRoot \o B(<<"X",":"," ">>) \o [i \in 1..81000 |-> Ord("a")] \o CRLF \o CRLF

\* how far beyond HTTP_MAX_HEADER_SIZE the longest header section goes
MaxExcess == 80

\* the example; header sections of exactly HTTP_MAX_HEADER_SIZE bytes, of one
\* byte more and of MaxExcess bytes more; and a header section of exactly
\* HTTP_MAX_HEADER_SIZE bytes and one of one byte more that follow a first
\* request on the same connection
LongInputs ==
    {OverflowExample,
     HeaderOfLength(HTTP_MAX_HEADER_SIZE),
     HeaderOfLength(HTTP_MAX_HEADER_SIZE + 1),
     HeaderOfLength(HTTP_MAX_HEADER_SIZE + MaxExcess),
     MinimalGet \o HeaderOfLength(HTTP_MAX_HEADER_SIZE),
     MinimalGet \o HeaderOfLength(HTTP_MAX_HEADER_SIZE + 1)}

LongScenarios ==
    [tp : {"Request"}, strict : BOOLEAN, checked : {FALSE}, cb : {GoodSink},
     input : LongInputs]

\* the embedder reads the transport in buffers of BlockSize bytes, or has the
\* whole input in one buffer
BlockSize == 4096

BlockLengths ==
    LET rest == Len(input) - pos
    IN {n \in {BlockSize, rest} : n >= 1 /\ n <= rest /\
                                  (n = BlockSize \/ rest < BlockSize \/ pos = 0)}

ExecuteBlock ==
    /\ ~panicked
    /\ ~parser.upgrade
    /\ \E n \in BlockLengths : Executed(SubSeq(input, pos + 1, pos + n), "execute")
    /\ UNCHANGED eofs

InitLong == Start(LongScenarios)

NextLong == ExecuteBlock

SpecLong == InitLong /\ [][NextLong]_vars

\* an embedder that hands execute one byte at a time
ByteScenarios ==
    [tp : Types, strict : BOOLEAN, checked : {FALSE}, cb : {GoodSink},
     input : NamedInputs]

ExecuteByte ==
    /\ ~panicked
    /\ ~parser.upgrade
    /\ pos < Len(input)
    /\ Executed(<<input[pos + 1]>>, "execute")
    /\ UNCHANGED eofs

InitBytes == Start(ByteScenarios)

NextBytes == ExecuteByte

SpecBytes == InitBytes /\ [][NextBytes]_vars

\* pairs of messages on one connection: the first one permits keep-alive
PutWithBody ==
    B(<<"P","U","T"," ","/","f"," ","H","T","T","P","/","1",".","1">>) \o CRLF
    \o ContentLengthField \o B(<<"2">>) \o CRLF \o CRLF \o Payload(2)

NoContentResponse ==
    B(<<"H","T","T","P","/","1",".","1"," ","2","0","4"," ","N">>) \o CRLF \o CRLF

CloseRequest ==
    GetRoot
    \o B(<<"C","o","n","n","e","c","t","i","o","n",":"," ","c","l","o","s","e">>)
    \o CRLF \o CRLF

FirstRequests == {MinimalGet, HeadRequest, PutWithBody, ChunkedRequest}

FirstResponses == {NoContentResponse, ContentLengthResponse, ChunkedReply(<<2>>)}

\* a second request; the long one has a header section of exactly
\* HTTP_MAX_HEADER_SIZE bytes and follows a request without or with a chunked
\* body
RequestPairs ==
    {m1 \o m2 : m1 \in FirstRequests,
                m2 \in FirstRequests \cup {CloseRequest, UpgradeRequest}}
    \cup {m1 \o HeaderOfLength(HTTP_MAX_HEADER_SIZE) : m1 \in {MinimalGet, ChunkedRequest}}

ResponsePairs ==
    {m1 \o m2 : m1 \in FirstResponses, m2 \in FirstResponses \cup {EofResponse}}

PairScenarios ==
    [tp : {"Request"}, strict : BOOLEAN, checked : {FALSE}, cb : {GoodSink},
     input : RequestPairs]
    \cup [tp : {"Response"}, strict : BOOLEAN, checked : {FALSE}, cb : {GoodSink},
          input : ResponsePairs]

\* the embedder hands over a short input in chunks of any length, a long one
\* in buffers
PartLengths == IF Len(input) > BlockSize THEN BlockLengths ELSE ChunkLengths

ExecutePart ==
    /\ ~panicked
    /\ ~parser.upgrade
    /\ \E n \in PartLengths : Executed(SubSeq(input, pos + 1, pos + n), "execute")
    /\ UNCHANGED eofs

InitPairs == Start(PairScenarios)

NextPairs == ExecutePart

SpecPairs == InitPairs /\ [][NextPairs]_vars

\* messages for every way a body can be framed: a GET, a CONNECT or a
\* response with status 200, 204 or 100; with or without an Upgrade header,
\* Transfer-Encoding: chunked, a Content-Length of 0 or 5, Connection: close;
\* each followed by the body its headers announce and by FramingTail
FramingDescriptors ==
    [start : {"GET", "CONNECT", "200", "204", "100"},
     upgrade : BOOLEAN,
     chunked : BOOLEAN,
     length : {"none", "0", "5"},
     close : BOOLEAN]

FramingStartLine(d) ==
    CASE d.start = "GET" -> GetRoot
      [] d.start = "CONNECT" ->
             B(<<"C","O","N","N","E","C","T"," ","h",":","1"," ",
                 "H","T","T","P","/","1",".","1">>) \o CRLF
      [] d.start = "200" -> Status200
      [] d.start = "204" ->
             B(<<"H","T","T","P","/","1",".","1"," ","2","0","4"," ","N">>) \o CRLF
      [] d.start = "100" ->
             B(<<"H","T","T","P","/","1",".","1"," ","1","0","0"," ","C">>) \o CRLF

FramingHeaders(d) ==
    FramingStartLine(d)
    \o (IF d.upgrade THEN B(<<"U","p","g","r","a","d","e",":"," ","w","s">>) \o CRLF
        ELSE <<>>)
    \o (IF d.length = "none" THEN <<>>
        ELSE ContentLengthField \o B(<<d.length>>) \o CRLF)
    \o (IF d.chunked THEN TransferEncodingChunked ELSE <<>>)
    \o (IF d.close
        THEN B(<<"C","o","n","n","e","c","t","i","o","n",":"," ","c","l","o","s","e">>)
             \o CRLF
        ELSE <<>>)
    \o CRLF

FramingBody(d) ==
    IF d.chunked
    THEN B(<<"5">>) \o CRLF \o Hello \o CRLF \o B(<<"0">>) \o CRLF \o CRLF
    ELSE IF d.length = "5" THEN Hello
    ELSE <<>>

\* what the transport delivers after the message: an empty line and the
\* first byte of a request
FramingTail == CRLF \o B(<<"G">>)

FramingMessage(d) == FramingHeaders(d) \o FramingBody(d) \o FramingTail

IsRequest(d) == d.start \in {"GET", "CONNECT"}

\* the sinks whose on_headers_complete answers Nothing or SkipBody
DecidingSinks == [fail : {"none"}, decision : {"Nothing", "SkipBody"}]

FramingScenarios ==
    {[tp |-> IF IsRequest(d) THEN "Request" ELSE "Response", strict |-> s,
      checked |-> FALSE, cb |-> cb, input |-> FramingMessage(d)] :
        d \in FramingDescriptors, s \in BOOLEAN, cb \in DecidingSinks}

InitFraming == Start(FramingScenarios)

NextFraming == ExecuteByte

SpecFraming == InitFraming /\ [][NextFraming]_vars

\* the longest run of digits in a Content-Length value or a chunk size
MaxDigits == 21

Repeat(ch, n) == [i \in 1..n |-> Ord(ch)]

\* decimal numbers around the limit: runs of 9, powers of ten, and the values
\* next to 2^64
DecimalNumbers ==
    {Repeat("9", n) : n \in 1..MaxDigits}
    \cup {B(<<"1">>) \o Repeat("0", n) : n \in 1..(MaxDigits - 1)}
    \cup {B(<<"1","8","4","4","6","7","4","4","0","7","3","7","0","9","5","5","1","6","0">>)
          \o B(<<d>>) : d \in {"0", "9"}}
    \cup {B(<<"1","8","4","4","6","7","4","4","0","7","3","7","0","9","5","5","1","6","1">>)
          \o B(<<d>>) : d \in {"3", "4", "5", "6"}}

\* hexadecimal numbers around the limit: runs of f, and powers of sixteen
HexNumbers ==
    {Repeat("f", n) : n \in 1..MaxDigits}
    \cup {B(<<"1">>) \o Repeat("0", n) : n \in 1..(MaxDigits - 1)}
    \cup {Repeat("F", 15) \o B(<<d>>) : d \in {"0", "E"}}

\* requests that end with a Content-Length header or with a chunk-size line
DigitInputs ==
    {GetRoot \o ContentLengthField \o n \o CRLF \o CRLF : n \in DecimalNumbers}
    \cup {GetRoot \o TransferEncodingChunked \o CRLF \o n \o CRLF : n \in HexNumbers}

\* the requests in a build that wraps on arithmetic overflow and in one that
\* panics
DigitScenarios ==
    [tp : {"Request"}, strict : {FALSE}, checked : BOOLEAN, cb : {GoodSink},
     input : DigitInputs]

InitDigits == Start(DigitScenarios)

NextDigits == ExecuteByte

SpecDigits == InitDigits /\ [][NextDigits]_vars

\* version components of one to three digits, below and above 99 and 255;
\* 256 overflows a u8 in the addition of the third digit, 260 and 999 in the
\* multiplication before it
VersionNumbers ==
    {B(<<"1">>), B(<<"9","9">>), B(<<"1","0","0">>), B(<<"2","5","6">>),
     B(<<"2","6","0">>), B(<<"9","9","9">>)}

\* status codes of three to five digits
StatusNumbers ==
    {B(<<"2","0","0">>), B(<<"9","9","9">>), B(<<"1","0","0","0">>),
     B(<<"2","0","0","0","0">>)}

RequestWithVersion(ma, mi) ==
    B(<<"G","E","T"," ","/"," ","H","T","T","P","/">>) \o ma \o B(<<".">>) \o mi
    \o CRLF \o CRLF

ResponseWithVersion(ma, mi, st) ==
    B(<<"H","T","T","P","/">>) \o ma \o B(<<".">>) \o mi \o <<SP>> \o st
    \o B(<<" ","O","K">>) \o CRLF \o CRLF

\* request lines and status lines with these numbers, in a build that wraps
\* on arithmetic overflow and in one that panics
VersionScenarios ==
    [tp : {"Request"}, strict : {FALSE}, checked : BOOLEAN, cb : {GoodSink},
     input : {RequestWithVersion(ma, mi) : ma, mi \in VersionNumbers}]
    \cup
    [tp : {"Response"}, strict : {FALSE}, checked : BOOLEAN, cb : {GoodSink},
     input : {ResponseWithVersion(ma, mi, st) :
                  ma, mi \in VersionNumbers, st \in StatusNumbers}]

InitVersions == Start(VersionScenarios)

NextVersions == ExecuteByte

SpecVersions == InitVersions /\ [][NextVersions]_vars

\* the names HttpMethod::to_string gives
MethodNames == {method_to_string[m] : m \in DOMAIN method_to_string}

\* every beginning of a method name, the empty one included
MethodPrefixes == UNION {{SubSeq(w, 1, k) : k \in 0..Len(w)} : w \in MethodNames}

\* the bytes a word may continue with: the capital letters, and one byte of
\* every other kind the dispatch tells apart
MethodBytes ==
    (Ord("A")..Ord("Z")) \cup {Ord("-"), Ord("g"), Ord("1"), SP, TAB, CR, LF, 0, 255}

\* the words offered as a method: every beginning of a method name continued
\* by one byte (every way a word can leave the names at its last byte, and
\* every name and beginning itself), and names after an empty line; a name
\* is not continued by a space, which would end the word
MethodWords ==
    ({p \o <<b>> : p \in MethodPrefixes, b \in MethodBytes}
         \ {w \o <<SP>> : w \in MethodNames})
    \cup {CRLF \o method_to_string["Get"], <<LF>> \o method_to_string["Purge"]}

\* a request parser given a word followed by a space
MethodScenarios ==
    [tp : {"Request"}, strict : BOOLEAN, checked : {FALSE}, cb : {GoodSink},
     input : {w \o <<SP>> : w \in MethodWords}]

InitMethods == Start(MethodScenarios)

NextMethods == ExecuteByte

SpecMethods == InitMethods /\ [][NextMethods]_vars

\* the states parse_url_char is called in, and one it is never called in
UrlCallStates == UrlStates \cup {"ReqSpacesBeforeUrl", "ReqHttpStart"}

\* a parser in a URL state, strict or not, and any byte
InitUrl ==
    /\ parser \in {[new("Request") EXCEPT !.state = s, !.strict = st] :
                       s \in UrlCallStates, st \in BOOLEAN}
    /\ input \in {<<ch>> : ch \in 0..255}
    /\ created = parser
    /\ before = parser
    /\ sink = GoodSink
    /\ checked = FALSE
    /\ pos = 0
    /\ log = <<>>
    /\ events = <<>>
    /\ ret = None
    /\ lastlen = 0
    /\ op = "new"
    /\ eofs = 0
    /\ panicked = FALSE
    /\ unpaused = [p |-> parser, log |-> <<>>, pos |-> 0, ret |-> None,
                   resumed |-> FALSE]

\* execute asks for the successor of the parser's state on the byte; ret is
\* the answer; `&self` is borrowed immutably
ParseUrlChar ==
    /\ op = "new"
    /\ ret' = parse_url_char(parser, parser.state, input[1])
    /\ op' = "parse_url_char"
    /\ before' = parser
    /\ UNCHANGED <<parser, created, sink, checked, input, pos, log, events,
                   lastlen, eofs, panicked, unpaused>>

NextUrl == ParseUrlChar

SpecUrl == InitUrl /\ [][NextUrl]_vars

\* values of a Content-Length header: digits, digits with trailing spaces,
\* digits after a space, and bytes that are neither
LengthValues ==
    {B(<<"0">>), B(<<"5">>), B(<<"1","2">>), B(<<"0","7">>),
     B(<<"5"," ">>), B(<<"1","2"," "," ">>),
     B(<<"1"," ","2">>), B(<<"1"," "," ","2"," ">>), B(<<"0"," ","0">>),
     B(<<"1","a">>), B(<<"a">>), B(<<"-","1">>), B(<<"+","1">>), B(<<"1",".","0">>),
     B(<<"1",",","2">>), B(<<"5","\t">>), B(<<"5"," ","\t">>), B(<<"5"," ","x">>)}

\* a request whose Content-Length header has the value v, up to the end of its
\* header section
LengthRequest(v) ==
    B(<<"P","U","T"," ","/","f"," ","H","T","T","P","/","1",".","1">>) \o CRLF
    \o ContentLengthField \o v \o CRLF \o CRLF

LengthScenarios ==
    [tp : {"Request"}, strict : BOOLEAN, checked : {FALSE}, cb : {GoodSink},
     input : {LengthRequest(v) : v \in LengthValues}]

InitLengths == Start(LengthScenarios)

NextLengths == ExecuteByte

SpecLengths == InitLengths /\ [][NextLengths]_vars

\* Requests with one header, for the framing flags.

\* header names: the framing header names in several cases, and names that
\* start with, contain or extend one
FlagNames ==
    {B(<<"C","o","n","n","e","c","t","i","o","n">>),
     B(<<"C","O","N","N","E","C","T","I","O","N">>),
     B(<<"P","r","o","x","y","-","C","o","n","n","e","c","t","i","o","n">>),
     B(<<"T","r","a","n","s","f","e","r","-","E","n","c","o","d","i","n","g">>),
     B(<<"t","r","a","n","s","f","e","r","-","E","N","C","O","D","I","N","G">>),
     B(<<"C","o","n","n","e","c","t","i","o">>),
     B(<<"C","o","n","n","e","c","t","i","o","n","x">>),
     B(<<"X","-","C","o","n","n","e","c","t","i","o","n">>),
     B(<<"C","o","n","n","e","c","t","i","o","n"," ">>),
     B(<<"C","o","n","n","e","c","t","i","o","n"," ","x">>),
     B(<<"T","r","a","n","s","f","e","r","-","E","n","c","o","d","i","n","g"," "," ">>),
     B(<<"P","r","o","x","y","-","C","o","n","n","e","c","t">>),
     B(<<"T","r","a","n","s","f","e","r","-","E","n","c","o","d","i","n","g","s">>),
     B(<<"C","o","n","t","e","n","t","-","L","e","n","g","t","h">>)}

\* header values: the framing keywords in several cases, values that start
\* with, contain or extend one, and values continued by a folded line
FlagValues ==
    {B(<<"k","e","e","p","-","a","l","i","v","e">>),
     B(<<"K","e","e","p","-","A","l","i","v","e">>),
     B(<<"c","l","o","s","e">>),
     B(<<"C","L","O","S","E">>),
     B(<<"c","h","u","n","k","e","d">>),
     B(<<"C","h","u","n","k","e","d">>),
     B(<<"c","l","o","s","e"," "," ">>),
     B(<<"c","l","o","s","e","d">>),
     B(<<"c","l","o","s">>),
     B(<<"x"," ","c","l","o","s","e">>),
     B(<<"c","l","o","s","e",","," ","x">>),
     B(<<"k","e","e","p","-","a","l","i","v","e","\t">>),
     B(<<"c","h","u","n","k","e","d",";">>),
     B(<<"c","l","o","s","e","\r","\n"," ","x">>),
     B(<<"c","h","u","n","k","e","d","\r","\n","\t","x">>),
     B(<<"k","e","e","p","-","a","l","i","v","e","\r","\n"," ">>),
     B(<<"5">>),
     <<>>}

FlagCases == [name : FlagNames, value : FlagValues]

\* the request up to and including the line end of its header
FlagLine(d) ==
    GetRoot \o d.name \o B(<<":"," ">>) \o d.value \o CRLF

FlagRequest(d) == FlagLine(d) \o CRLF

FlagScenarios ==
    [tp : {"Request"}, strict : BOOLEAN, checked : {FALSE}, cb : {GoodSink},
     input : {FlagRequest(d) : d \in FlagCases}]

InitFlags == Start(FlagScenarios)

NextFlags == ExecuteByte

SpecFlags == InitFlags /\ [][NextFlags]_vars

\* Header sections with empty, folded and bare-LF values, in any chunking.

\* a request whose headers have empty values, the last one too
EmptyValues ==
    B(<<"G","E","T"," ","/"," ","H","T","T","P","/","1",".","1","\r","\n",
        "A",":","\r","\n","B",":"," ","x","\r","\n","C",":"," ","\r","\n",
        "\r","\n">>)

\* empty values continued by folded lines
FoldedEmptyValues ==
    B(<<"G","E","T"," ","/"," ","H","T","T","P","/","1",".","1","\r","\n",
        "A",":","\r","\n"," ","\r","\n","B",":","\r","\n","\t","y","\r",
        "\n","C",":","x","\r","\n"," ","z","\r","\n","\r","\n">>)

\* headers whose lines end with a bare LF
BareLfHeaders ==
    B(<<"G","E","T"," ","/"," ","H","T","T","P","/","1",".","1","\n","A",
        ":","\n","B",":"," ","y","\n","C",":","\n","\n">>)

\* a chunked request with trailers, one of them empty
EmptyTrailers ==
    B(<<"P","O","S","T"," ","/"," ","H","T","T","P","/","1",".","1","\r",
        "\n","T","r","a","n","s","f","e","r","-","E","n","c","o","d","i",
        "n","g",":"," ","c","h","u","n","k","e","d","\r","\n","\r","\n","0",
        "\r","\n","T",":","\r","\n","U",":"," ","v","\r","\n","\r","\n">>)

\* a response with an empty header value, then a second response
EmptyValueResponse ==
    B(<<"H","T","T","P","/","1",".","1"," ","2","0","4"," ","N","\r","\n",
        "A",":","\r","\n","\r","\n","H","T","T","P","/","1",".","1"," ","2",
        "0","4"," ","N","\r","\n","B",":","b","\r","\n","\r","\n">>)

HeaderInputs ==
    {EmptyValues, FoldedEmptyValues, BareLfHeaders,
     EmptyTrailers, EmptyValueResponse}

\* the sinks whose header callbacks or whose end-of-headers callback fail
HeaderSinks ==
    {GoodSink} \cup [fail : {"on_header_field", "on_header_value"},
                     decision : {"Nothing"}]

HeaderScenarios ==
    [tp : Types, strict : BOOLEAN, checked : {FALSE}, cb : HeaderSinks,
     input : HeaderInputs]

InitHeaders == Start(HeaderScenarios)

NextHeaders == Execute

SpecHeaders == InitHeaders /\ [][NextHeaders]_vars

\* Messages of both HTTP/1.x versions with Connection: close, Connection:
\* keep-alive, both or none, with a body framed by Content-Length, by chunks
\* or (a response without framing headers) by the end of the transport.
CloseDescriptors ==
    [start : {"GET", "200"},
     version : {"1.0", "1.1"},
     close : BOOLEAN,
     keepalive : BOOLEAN,
     body : {"none", "length", "chunked"}]

CloseVersion(d) ==
    IF d.version = "1.0" THEN B(<<"H","T","T","P","/","1",".","0">>)
    ELSE B(<<"H","T","T","P","/","1",".","1">>)

CloseStartLine(d) ==
    IF d.start = "GET"
    THEN B(<<"G","E","T"," ","/"," ">>) \o CloseVersion(d) \o CRLF
    ELSE CloseVersion(d) \o B(<<" ","2","0","0"," ","O","K">>) \o CRLF

CloseHeaders(d) ==
    CloseStartLine(d)
    \o (IF d.keepalive
        THEN B(<<"C","o","n","n","e","c","t","i","o","n",":"," ",
                 "k","e","e","p","-","a","l","i","v","e">>) \o CRLF
        ELSE <<>>)
    \o (IF d.close
        THEN B(<<"C","o","n","n","e","c","t","i","o","n",":"," ","c","l","o","s","e">>)
             \o CRLF
        ELSE <<>>)
    \o (IF d.body = "length" THEN ContentLengthField \o B(<<"5">>) \o CRLF
        ELSE IF d.body = "chunked" THEN TransferEncodingChunked
        ELSE <<>>)
    \o CRLF

\* a response without Content-Length and Transfer-Encoding has the body that
\* the end of the transport ends
EndsByEof(d) == d.start = "200" /\ d.body = "none"

CloseBody(d) ==
    IF d.body = "chunked"
    THEN B(<<"5">>) \o CRLF \o Hello \o CRLF \o B(<<"0">>) \o CRLF \o CRLF
    ELSE IF d.body = "length" \/ EndsByEof(d) THEN Hello
    ELSE <<>>

\* the message: its header section and its body
CloseProper(d) == CloseHeaders(d) \o CloseBody(d)

\* what the transport delivers after the message: an empty line and the
\* first byte of a message of the same type
CloseTail(d) ==
    CRLF \o (IF d.start = "GET" THEN B(<<"G">>) ELSE B(<<"H">>))

CloseMessage(d) == CloseProper(d) \o CloseTail(d)

CloseScenarios ==
    {[tp |-> IF d.start = "GET" THEN "Request" ELSE "Response", strict |-> s,
      checked |-> FALSE, cb |-> GoodSink, input |-> CloseMessage(d)] :
        d \in CloseDescriptors, s \in BOOLEAN}

InitClose == Start(CloseScenarios)

\* the embedder feeds the bytes one by one and may signal EOF at any point
NextClose == ExecuteByte \/ Eof

SpecClose == InitClose /\ [][NextClose]_vars

-----------------------------------------------------------------------------
(* Properties.                                                             *)

Count(kind) == Cardinality({i \in 1..Len(log) : log[i].k = kind})

StartStates == {"StartReq", "StartRes", "StartReqOrRes"}

\* C1: a call of execute made while errno is set (any kind of error, Paused
\* included), on any chunk, the empty one included, returns 0, makes no
\* callback and leaves every field of the parser as it was.
C1_ExecuteAfterErrorIsNoOp ==
    (op \in {"execute", "eof"} /\ before.errno # NoErr) =>
        (ret = 0 /\ events = <<>> /\ parser = before /\ ~panicked)

\* a non-empty chunk was given to a parser that had stopped on a wire error
\* in the middle of a message
C1_Witness ==
    /\ op = "execute"
    /\ lastlen > 0
    /\ before.errno = "InvalidUrl"
    /\ before.state = "Dead"
    /\ ret = 0

\* C2: errno is sticky: the only operation that unsets a set errno is
\* pause(false) on errno = Paused, and no operation replaces a set errno by
\* another one.
C2_ErrnoSticky ==
    (before.errno # NoErr /\ parser.errno # before.errno) =>
        (op = "resume" /\ before.errno = "Paused" /\ parser.errno = NoErr)

\* the parser was resumed in the middle of the input
C2_Witness ==
    /\ op = "resume"
    /\ before.errno = "Paused"
    /\ parser.errno = NoErr
    /\ pos > 0
    /\ pos < Len(input)

\* the call of execute on the whole input in one chunk, made on the parser as
\* it was created, and what the sink has recorded after that call
Single == execute(created, sink, input, checked)

SingleLog == Deliver(<<>>, Single.ev)

SingleIsValid == Single.p.errno = NoErr /\ ~Single.panic

\* the chunked parse has nothing left to do
Finished ==
    pos = Len(input) \/ parser.upgrade \/ parser.errno # NoErr \/ panicked

IsData(e) == e.k \in DataKinds

IsNotification(e) == e.k \notin DataKinds

\* the spans of a record, each with the concatenation of its slices
DataSpans(l) ==
    LET s == SelectSeq(l, IsData)
    IN [i \in 1..Len(s) |-> [k |-> s[i].k, d |-> s[i].d]]

Notifications(l) ==
    LET s == SelectSeq(l, IsNotification)
    IN [i \in 1..Len(s) |-> s[i].k]

Indices(kind) == {i \in 1..Len(log) : log[i].k = kind}

\* the bytes all on_body callbacks have delivered
RECURSIVE BodyBytes(_)
BodyBytes(l) ==
    IF l = <<>> THEN <<>>
    ELSE IF Head(l).k = "on_body" THEN Head(l).d \o BodyBytes(Tail(l))
    ELSE BodyBytes(Tail(l))

IsPrefix(s, t) == Len(s) <= Len(t) /\ s = SubSeq(t, 1, Len(s))

\* C3 as the specification states it: for every input and every partition
\* of it into chunks, the spans delivered, each the concatenation of its
\* slices, are those of the parse of the input in one chunk.
C3_SpansForEveryInput ==
    Finished => DataSpans(log) = DataSpans(SingleLog)

\* C3: for every input whose parse in one chunk ends without an error, and
\* every partition of it into chunks, the spans delivered, each the
\* concatenation of its slices, are those of the parse in one chunk.
C3_SpansChunkInvariant ==
    (Finished /\ SingleIsValid) => DataSpans(log) = DataSpans(SingleLog)

\* the last call began inside a header value and delivered the rest of it
C3_Witness ==
    /\ Finished
    /\ SingleIsValid
    /\ parser.errno = NoErr
    /\ before.state = "HeaderValue"
    /\ events # <<>>
    /\ events[1].k = "on_header_value"
    /\ events[1].d # <<>>
    /\ Len(log) < Len(SingleLog) + Len(events)

\* C4: for an input whose parse in one chunk ends without an error, every
\* partition into chunks gives the same sequence of non-data callbacks and
\* the same final method, status_code, http_version, flags and state.
C4_NotificationsChunkInvariant ==
    (Finished /\ SingleIsValid) =>
        /\ Notifications(log) = Notifications(SingleLog)
        /\ parser.method = Single.p.method
        /\ parser.status_code = Single.p.status_code
        /\ parser.http_version = Single.p.http_version
        /\ parser.flags = Single.p.flags
        /\ parser.state = Single.p.state

\* a chunked request with a trailer has been parsed to its end, the last
\* call holding only the last byte
C4_Witness ==
    /\ input = ChunkedRequest
    /\ pos = Len(input)
    /\ parser.errno = NoErr
    /\ lastlen = 1
    /\ before.state = "HeadersAlmostDone"
    /\ "TRAILING" \in parser.flags
    /\ Count("on_message_complete") = 1

\* C5: a message with Content-Length: N delivers the N bytes that follow its
\* headers, and no others, through on_body before on_message_complete; with
\* N = 0 it delivers none.
C5_ContentLengthBody ==
    \A n \in BodyLengths :
        input \in {ContentLengthRequest(n), ContentLengthReply(n)} =>
            /\ IsPrefix(BodyBytes(log), Payload(n))
            /\ \A m \in Indices("on_message_complete") :
                   /\ BodyBytes(SubSeq(log, 1, m - 1)) = Payload(n)
                   /\ BodyBytes(SubSeq(log, m, Len(log))) = <<>>
            /\ n = 0 => Indices("on_body") = {}
            /\ (pos = Len(input) /\ parser.errno = NoErr)
                   => Indices("on_message_complete") # {}

\* the body of LongBodyLen bytes arrived in more than one call, and the
\* request that follows it has been parsed as a message of its own
C5_Witness ==
    /\ input = ContentLengthRequest(LongBodyLen)
    /\ pos = Len(input)
    /\ parser.errno = NoErr
    /\ BodyBytes(log) = Payload(LongBodyLen)
    /\ Count("on_message_complete") = 2
    /\ lastlen <= MaxChunk

\* C6: for a chunked body the bytes on_body delivers are the payload without
\* the framing, and on_message_complete fires only after the zero-size chunk
\* and the trailers.
C6_ChunkedBody ==
    \A sizes \in Bodies :
        input \in {ChunkedPost(sizes), ChunkedReply(sizes)} =>
            /\ IsPrefix(BodyBytes(log), Decoded(sizes))
            /\ \A m \in Indices("on_message_complete") :
                   /\ BodyBytes(log) = Decoded(sizes)
                   /\ "TRAILING" \in log[m].flags
                   /\ m = Len(log)
                   /\ pos = Len(input)
            /\ (pos = Len(input) /\ parser.errno = NoErr)
                   => Indices("on_message_complete") # {}

\* a response with two chunks and a trailer has been parsed to its end
C6_Witness ==
    /\ input = ChunkedReply(<<2, MaxPart>>)
    /\ pos = Len(input)
    /\ parser.errno = NoErr
    /\ BodyBytes(log) = Payload(2) \o Payload(MaxPart)
    /\ Count("on_message_complete") = 1
    /\ lastlen <= MaxChunk

\* C7: on_message_begin fires once per message, at the first byte of the
\* message that is neither CR nor LF: never while the input consumed so far
\* holds only CR and LF, it has fired once a byte other than CR and LF has
\* been accepted, and two of them are separated by an on_message_complete.
C7_MessageBeginOncePerMessage ==
    /\ (\A i \in 1..pos : input[i] \in {CR, LF}) => Count("on_message_begin") = 0
    /\ (parser.errno = NoErr /\ \E i \in 1..pos : input[i] \notin {CR, LF})
           => Count("on_message_begin") > 0
    /\ \A i, j \in 1..Len(log) :
           (i < j /\ log[i].k = "on_message_begin" /\ log[j].k = "on_message_begin")
               => \E m \in (i + 1)..(j - 1) : log[m].k = "on_message_complete"

\* no on_message_complete lies strictly between the entries i and j
SameMessage(i, j) ==
    \A m \in (i + 1)..(j - 1) : log[m].k # "on_message_complete"

\* C8: on_headers_complete fires exactly once per message: after
\* on_message_begin and the header fields and values, before the body and
\* on_message_complete, and not again after the trailers.
C8_HeadersCompleteOncePerMessage ==
    /\ \A i, j \in Indices("on_headers_complete") : i < j => ~SameMessage(i, j)
    /\ \A i \in Indices("on_headers_complete") :
           /\ \E j \in Indices("on_message_begin") : j < i /\ SameMessage(j, i)
           /\ \A j \in (i + 1)..Len(log) :
                  (log[j].k \in {"on_header_field", "on_header_value"} /\
                   SameMessage(i, j)) => "TRAILING" \in log[j].flags
    /\ \A j \in Indices("on_body") \cup Indices("on_message_complete") :
           \E i \in Indices("on_headers_complete") : i < j /\ SameMessage(i, j)

\* a chunked response with a trailer has been parsed to its end: the trailer
\* field follows on_headers_complete and the body
C8_Witness ==
    /\ input = ChunkedReply(<<2>>)
    /\ pos = Len(input)
    /\ parser.errno = NoErr
    /\ Count("on_headers_complete") = 1
    /\ Count("on_message_complete") = 1
    /\ \E i \in Indices("on_header_field") :
           /\ "TRAILING" \in log[i].flags
           /\ \E j \in Indices("on_body") : j < i

\* C9: on_message_complete fires exactly once per message: never more often
\* than on_headers_complete, and as often once the parser is back in a start
\* state or in Dead.
C9_MessageCompleteOncePerMessage ==
    /\ Count("on_message_complete") <= Count("on_headers_complete")
    /\ (parser.errno = NoErr /\ parser.state \in StartStates \cup {"Dead"})
           => Count("on_message_complete") = Count("on_headers_complete")

\* C10: the value execute returns counts bytes of the chunk it was given: it
\* lies between 0 and the length of the chunk.
C10_ReturnWithinChunk ==
    (op \in {"execute", "eof"} /\ ~panicked) => (0 <= ret /\ ret <= lastlen)

\* C11: a call of execute that returns less than the length of its chunk ends
\* with errno set or with upgrade true; a call that ends with errno unset and
\* upgrade false has consumed its whole chunk.
C11_ShortReturnMeansErrorOrUpgrade ==
    (op = "execute" /\ ~panicked /\ ret < lastlen) =>
        (parser.errno # NoErr \/ parser.upgrade)

\* a call stopped after the header section of an upgrade request, with bytes
\* of the chunk left over and no error
C11_Witness ==
    /\ op = "execute"
    /\ ret < lastlen
    /\ parser.errno = NoErr
    /\ parser.upgrade
    /\ before.errno = NoErr

EventKinds == [i \in 1..Len(events) |-> events[i].k]

\* C12: an empty chunk (EOF) given to a parser without errno is accepted in
\* BodyIdentityEof, where on_message_complete fires, and in a start state or
\* Dead, where nothing happens; in every other state it sets errno to
\* InvalidEofState and makes no callback.
C12_EofAcceptedStates ==
    (op = "eof" /\ before.errno = NoErr) =>
        /\ ~panicked
        /\ before.state = "BodyIdentityEof" =>
               /\ EventKinds = <<"on_message_complete">>
               /\ parser.errno = IF sink.fail = "on_message_complete"
                                 THEN "CBMessageComplete" ELSE NoErr
        /\ before.state \in StartStates \cup {"Dead"} =>
               /\ events = <<>>
               /\ parser = before
        /\ before.state \notin StartStates \cup {"Dead", "BodyIdentityEof"} =>
               /\ events = <<>>
               /\ parser.errno = "InvalidEofState"

\* EOF in the middle of a chunk of a chunked body
C12_Witness ==
    /\ op = "eof"
    /\ before.errno = NoErr
    /\ before.state = "ChunkData"
    /\ parser.errno = "InvalidEofState"

\* the errno of each callback
CallbackErrno ==
    [on_message_begin |-> "CBMessageBegin", on_url |-> "CBUrl",
     on_status |-> "CBStatus", on_header_field |-> "CBHeaderField",
     on_header_value |-> "CBHeaderValue",
     on_headers_complete |-> "CBHeadersComplete", on_body |-> "CBBody",
     on_message_complete |-> "CBMessageComplete"]

\* the last callback of the last call, which was made on a non-empty chunk
\* and ended with that callback reporting an error
LastEvent == events[Len(events)]

CallbackFailed ==
    /\ op = "execute"
    /\ before.errno = NoErr
    /\ events # <<>>
    /\ LastEvent.k = sink.fail

\* the callback was made after the loop, for a mark left open
AfterLastByte == LastEvent.at = lastlen

\* the index in the chunk of the byte whose processing made the callback, and
\* that byte
FailedAt == IF AfterLastByte THEN lastlen - 1 ELSE LastEvent.at

FailedByte == input[(pos - ret) + FailedAt + 1]

\* the callbacks that leave their byte to the next call: on_headers_complete,
\* the on_body that ends a Content-Length body, the on_header_value made on a
\* bare LF or on the byte that follows an empty folded value
NoAdvance ==
    \/ LastEvent.k = "on_headers_complete"
    \/ LastEvent.k = "on_body" /\ LastEvent.state = "MessageDone"
    \/ LastEvent.k = "on_header_value" /\
           (LastEvent.state = "HeaderFieldStart" \/
            (LastEvent.state = "HeaderAlmostDone" /\ FailedByte = LF))

\* C13 as the specification states it: when a callback reports an error,
\* execute sets the callback's errno and returns the index of the byte after
\* the byte whose processing made the callback, whatever the callback.
C13_ReturnsByteAfterCallback ==
    CallbackFailed =>
        /\ parser.errno = CallbackErrno[sink.fail]
        /\ ret = FailedAt + 1

\* C13: when a callback reports an error, execute sets the callback's errno
\* and returns the index of the byte after the byte whose processing made the
\* callback, except that it returns the index of that byte itself for
\* on_headers_complete, for the on_body that ends a Content-Length body and
\* for the on_header_value made on a bare LF or after an empty folded value.
C13_CallbackErrorReturn ==
    CallbackFailed =>
        /\ ~panicked
        /\ parser.errno = CallbackErrno[sink.fail]
        /\ ret = IF ~AfterLastByte /\ NoAdvance THEN FailedAt ELSE FailedAt + 1

\* on_headers_complete reported an error in the middle of a chunk
C13_Witness ==
    /\ CallbackFailed
    /\ sink.fail = "on_headers_complete"
    /\ parser.errno = "CBHeadersComplete"
    /\ ret = FailedAt
    /\ ret + 1 < lastlen

\* C14: pause(true) latches errno = Paused whenever errno is unset or already
\* Paused and changes nothing else; a second pause(true) gives the same
\* parser as the first; while the latch is set every execute returns 0.
C14_PauseLatchesAndIsIdempotent ==
    /\ (op = "pause" /\ before.errno \in {NoErr, "Paused"}) =>
           (~panicked /\ parser = [before EXCEPT !.errno = "Paused"])
    /\ parser.errno \in {NoErr, "Paused"} =>
           pause(pause(parser, TRUE).p, TRUE) = pause(parser, TRUE)
    /\ (op \in {"execute", "eof"} /\ before.errno = "Paused") => ret = 0

\* a second pause(true) in a row, in the middle of the input
C14_Witness ==
    /\ op = "pause"
    /\ before.errno = "Paused"
    /\ parser = before
    /\ pos > 0
    /\ pos < Len(input)

\* C15: pause changes no field but errno: a pause or a resume leaves every
\* other field as it was, so after pause(true), any calls of execute and
\* pause(false) the parser is the one the never-paused parse has; and the
\* paused parse and the never-paused parse of the same chunks agree on the
\* callbacks received, on the bytes consumed, on the value every call made
\* while not paused returns, and on the parser.
C15_PauseChangesOnlyErrno ==
    /\ (op \in {"pause", "resume"}) => [parser EXCEPT !.errno = before.errno] = before
    /\ (op = "resume" /\ ~panicked) => parser = unpaused.p
    /\ parser.errno # "Paused" => parser = unpaused.p
    /\ parser.errno = "Paused" => [parser EXCEPT !.errno = NoErr] = unpaused.p
    /\ log = unpaused.log
    /\ pos = unpaused.pos
    /\ (op \in {"execute", "eof"} /\ before.errno # "Paused") => ret = unpaused.ret

\* a parse that was paused and resumed in the middle of the input has
\* finished the input
C15_Witness ==
    /\ unpaused.resumed
    /\ op = "execute"
    /\ pos = Len(input)
    /\ parser.errno = NoErr
    /\ parser.state \in StartStates
    /\ Count("on_message_complete") > 0
    /\ parser.nread = 0

\* the description of the message the embedder feeds
Described == CHOOSE d \in UpgradeDescriptors : UpgradeMessage(d) = input

\* C16: at on_headers_complete upgrade is true exactly when the message has
\* an Upgrade header with a non-empty value or is a CONNECT request; then the
\* same call of execute makes on_message_complete as its last callback,
\* leaves errno unset and returns the index of the byte after the LF that
\* ends the header section: no byte after it is parsed, whatever
\* Content-Length or Transfer-Encoding say.
C16_UpgradeStopsAfterHeaders ==
    \A i \in 1..Len(events) :
        events[i].k = "on_headers_complete" =>
            /\ events[i].upgrade <=>
                   (Described.upgrade = "value" \/ Described.start = "CONNECT")
            /\ events[i].upgrade =>
                   /\ i + 1 = Len(events)
                   /\ events[i + 1].k = "on_message_complete"
                   /\ parser.errno = NoErr
                   /\ parser.upgrade
                   /\ ~panicked
                   /\ pos = Len(UpgradeHeaderSection(Described))
                   /\ Count("on_body") = 0
                   /\ Count("on_message_begin") = 1

\* a CONNECT request with a Content-Length and a GET with an Upgrade header
\* and chunked encoding, each given to execute together with the bytes after
\* its header section
C16_Witness ==
    /\ op = "execute"
    /\ parser.upgrade
    /\ ret < lastlen
    /\ Described.framing # "none"
    /\ Described.start = "CONNECT" \/ Described.upgrade = "value"
    /\ pos = Len(input) - Len(Raw)
    /\ events[Len(events)].k = "on_message_complete"

\* needs_eof as the claim defines it; a parser that is not a request parser
\* counts as a response parser
NeedsEofAsStated(hp) ==
    /\ hp.tp # "Request"
    /\ hp.status_code \div 100 # 1
    /\ hp.status_code \notin {204, 304}
    /\ "SKIPBODY" \notin hp.flags
    /\ "CHUNKED" \notin hp.flags
    /\ hp.content_length = ULLONG_MAX

\* version >= 1.1
AtLeast11(v) == v.major > 1 \/ (v.major = 1 /\ v.minor >= 1)

KeepAliveAsStated(hp) ==
    /\ ~NeedsEofAsStated(hp)
    /\ \/ AtLeast11(hp.http_version) /\ "CONNECTION_CLOSE" \notin hp.flags
       \/ ~AtLeast11(hp.http_version) /\ "CONNECTION_KEEP_ALIVE" \in hp.flags

\* C17: for every version, flag set, status code and content_length,
\* http_should_keep_alive answers true iff the message does not need EOF and
\* either the version is 1.1 or later and CONNECTION_CLOSE is clear, or the
\* version is earlier and CONNECTION_KEEP_ALIVE is set.
C17_KeepAliveByVersion ==
    op = "http_should_keep_alive" => (ret <=> KeepAliveAsStated(before))

\* the message the embedder feeds, and whether the parser was created for
\* its kind
DescribedLines == CHOOSE d \in LineDescriptors : BareLfMessage(d) = input

RightType ==
    created.tp = "Both" \/
    created.tp = (IF DescribedLines.start = "request" THEN "Request" ELSE "Response")

\* C18: a strict parser rejects with an error a message whose request line,
\* status line, header line or end-of-headers line ends with a bare LF, so it
\* never consumes such a message to its end with errno unset; a non-strict
\* parser accepts the same message.
C18_StrictRejectsBareLf ==
    /\ parser.strict => ~(pos = Len(input) /\ parser.errno = NoErr)
    /\ (~parser.strict /\ RightType) => parser.errno = NoErr

\* the number of bytes execute has consumed when it stops on the byte that
\* would make the header section of the last request of the input longer
\* than HTTP_MAX_HEADER_SIZE
OverflowAt ==
    (IF SubSeq(input, 1, Len(MinimalGet)) = MinimalGet THEN Len(MinimalGet) ELSE 0)
    + HTTP_MAX_HEADER_SIZE

\* C19: nread <= HTTP_MAX_HEADER_SIZE in every parser context whose state is
\* at most HeadersDone, before and after every call of execute and at every
\* callback made during one; and the byte whose counting would push nread
\* above HTTP_MAX_HEADER_SIZE sets errno = HeaderOverflow, execute returning
\* the index of that byte.
C19_NreadWithinLimit ==
    /\ ParsingHeader(parser.state) => parser.nread <= HTTP_MAX_HEADER_SIZE
    /\ \A i \in 1..Len(events) :
           ParsingHeader(events[i].state) => events[i].nread <= HTTP_MAX_HEADER_SIZE
    /\ (op = "execute" /\ before.errno = NoErr /\ parser.errno = "HeaderOverflow") =>
           (pos = OverflowAt /\ ret < lastlen)
    /\ (op = "execute" /\ before.errno = NoErr /\ pos > OverflowAt) =>
           parser.errno = "HeaderOverflow"

\* the last operation was one call of execute on the whole input, made on
\* the parser as it was created
OneCallOnFreshParser ==
    /\ op = "execute"
    /\ before = created
    /\ lastlen = Len(input)

\* C20 as stated: one call of execute on a fresh request parser with the
\* request whose header X has a value of 81000 bytes ends with
\* errno = HeaderOverflow and returns 80,001.
C20_OverflowExample ==
    (OneCallOnFreshParser /\ input = OverflowExample) =>
        (parser.errno = "HeaderOverflow" /\ ret = 80001)

\* C20, amended: that request has 81,023 bytes, no more than
\* HTTP_MAX_HEADER_SIZE = 81,920: the call ends with errno unset, the message
\* complete, and returns 81,023. A header section of more than 81,920 bytes
\* (a value of 81,898 bytes or more) ends the call with
\* errno = HeaderOverflow, and it returns 81,920.
C20_OverflowNeedsMoreThanLimit ==
    OneCallOnFreshParser =>
        /\ input = OverflowExample =>
               /\ parser.errno = NoErr
               /\ ret = 81023
               /\ ret = Len(input)
               /\ EventKinds[Len(events)] = "on_message_complete"
        /\ Len(input) > OverflowAt =>
               /\ parser.errno = "HeaderOverflow"
               /\ ret = OverflowAt
        /\ Len(input) = 81921 => ret = 81920

\* the example of the specification was parsed in one call
C20_Witness ==
    /\ OneCallOnFreshParser
    /\ input = OverflowExample
    /\ parser.errno = NoErr
    /\ ret = 81023
    /\ parser.state = "StartReq"

\* the kinds of the callbacks of a record, a span counting once
Kinds(l) == [i \in 1..Len(l) |-> l[i].k]

\* C21: the minimal GET fed one byte per call of execute gives the callback
\* sequence of its parse in one chunk: on_message_begin, one on_url span
\* whose slices concatenate to "/", on_headers_complete and
\* on_message_complete; it ends with method Get, version 1.1 and
\* http_should_keep_alive true.
C21_SplitMinimalGet ==
    (input = MinimalGet /\ created.tp # "Response" /\ pos = Len(input)) =>
        /\ Kinds(log) = <<"on_message_begin", "on_url", "on_headers_complete",
                          "on_message_complete">>
        /\ Kinds(log) = Kinds(SingleLog)
        /\ DataSpans(log) = DataSpans(SingleLog)
        /\ log[2].d = B(<<"/">>)
        /\ parser.errno = NoErr
        /\ parser.method = "Get"
        /\ parser.http_version = [major |-> 1, minor |-> 1]
        /\ http_should_keep_alive(parser)

\* the last of the eighteen calls, on the LF that ends the headers, has been
\* made and has delivered on_headers_complete and on_message_complete
C21_Witness ==
    /\ input = MinimalGet
    /\ created.tp = "Request"
    /\ pos = Len(input)
    /\ lastlen = 1
    /\ EventKinds = <<"on_headers_complete", "on_message_complete">>
    /\ log[2].k = "on_url"
    /\ Len(log) = 4

\* the parse, in one chunk, of the bytes consumed so far by a parser created
\* for the type the parser has resolved to
TypedPrefix ==
    execute([new(parser.tp) EXCEPT !.strict = created.strict], sink,
            SubSeq(input, 1, pos), checked)

\* the callbacks of a record without the parser fields seen at each
Calls(l) == [i \in 1..Len(l) |-> [k |-> l[i].k, d |-> l[i].d]]

\* C22: a parser created for both types that has resolved its type and has
\* consumed the bytes so far without an error is, field for field, the parser
\* that a parser created for that type is after the same bytes, has made the
\* same callbacks and has consumed as many bytes; in particular its later
\* messages start in the start state of the resolved type.
C22_EitherModeAsTyped ==
    (created.tp = "Both" /\ parser.tp # "Both" /\ parser.errno = NoErr /\
     ~panicked /\ pos > 0) =>
        /\ TypedPrefix.p = parser
        /\ TypedPrefix.ret = pos
        /\ Calls(Deliver(<<>>, TypedPrefix.ev)) = Calls(log)
        /\ OneCallOnFreshParser => Calls(TypedPrefix.ev) = Calls(events)

\* the two messages of the input
FirstMessage ==
    CHOOSE m \in FirstRequests \cup FirstResponses : IsPrefix(m, input)

SecondMessage == SubSeq(input, Len(FirstMessage) + 1, Len(input))

\* the chunked parse of both messages has ended as the parses f of the first
\* message and a of the second one, each by a fresh parser, say
AsAlone(f, a) ==
    /\ Calls(log) = Calls(Deliver(<<>>, f.ev)) \o Calls(Deliver(<<>>, a.ev))
    /\ parser.errno = a.p.errno
    /\ parser.http_version = a.p.http_version
    /\ parser.status_code = a.p.status_code
    /\ parser.method = a.p.method
    /\ parser.upgrade = a.p.upgrade

\* C23: when a message that permits keep-alive is followed by a second
\* message on the same parser, the callbacks are those of the first message
\* followed by those a fresh parser of the same type and strictness makes
\* for the second message alone, and errno and the public fields end as they
\* do for that fresh parser.
C23_PipeliningIndependence ==
    Finished =>
        \E f \in {execute(created, sink, FirstMessage, checked)} :
            \E a \in {execute(created, sink, SecondMessage, checked)} :
                AsAlone(f, a)

\* the description of the message the embedder feeds
Framed == CHOOSE d \in FramingDescriptors : FramingMessage(d) = input

\* the body framing the table gives: "complete" stands for the message
\* complete rows
FramingByTable(d, decision) ==
    IF d.upgrade \/ d.start = "CONNECT" THEN "complete"
    ELSE IF decision = "SkipBody" THEN "complete"
    ELSE IF d.chunked THEN "ChunkSizeStart"
    ELSE IF d.length = "0" THEN "complete"
    ELSE IF d.length = "5" THEN "BodyIdentity"
    ELSE IF IsRequest(d) \/ d.start \in {"204", "100"} THEN "complete"
    ELSE "BodyIdentityEof"

\* the call that has just ended consumed the LF that ends the header section
AtEndOfHeaders ==
    /\ op = "execute"
    /\ pos = Len(FramingHeaders(Framed))
    /\ ret > 0
    /\ parser.errno = NoErr

\* C24: at the end of the header section the framing of the body is chosen
\* with the priority upgrade > SKIPBODY > CHUNKED > Content-Length 0 >
\* Content-Length set > request or response that needs no EOF >
\* BodyIdentityEof: the state after the LF and whether on_message_complete
\* was made are those of the table.
C24_BodyFramingTable ==
    AtEndOfHeaders =>
        IF FramingByTable(Framed, sink.decision) = "complete"
        THEN /\ parser.state \in {"StartReq", "StartRes", "Dead"}
             /\ LastEvent.k = "on_message_complete"
             /\ Count("on_message_complete") = 1
        ELSE /\ parser.state = FramingByTable(Framed, sink.decision)
             /\ LastEvent.k = "on_headers_complete"
             /\ Count("on_message_complete") = 0

\* a response with both Content-Length: 5 and Transfer-Encoding: chunked has
\* reached the end of its headers: the chunked encoding wins
C24_Witness ==
    /\ AtEndOfHeaders
    /\ Framed.start = "200"
    /\ Framed.chunked
    /\ Framed.length = "5"
    /\ ~Framed.upgrade
    /\ sink.decision = "Nothing"
    /\ parser.state = "ChunkSizeStart"
    /\ parser.content_length = U64(5)

\* the last call of execute held one byte, and on_message_complete was the
\* last callback it made
CompletedByLastByte ==
    /\ op = "execute"
    /\ lastlen = 1
    /\ events # <<>>
    /\ LastEvent.k = "on_message_complete"

\* the last call of execute offered one byte to a parser in state Dead
ByteGivenToDead ==
    /\ op = "execute"
    /\ lastlen = 1
    /\ before.errno = NoErr
    /\ before.state = "Dead"

\* C25: when a message completes inside a chunk (no body, Content-Length
\* body, chunked trailers, skipped body, upgrade) the state at the time
\* on_message_complete fires is Dead exactly if the parser is strict and
\* http_should_keep_alive is false, and otherwise StartReq for a request
\* parser and StartRes for a response parser; in Dead a CR or LF is consumed
\* silently and any other byte sets ClosedConnection.
C25_StateAtMessageComplete ==
    /\ CompletedByLastByte =>
           /\ LastEvent.state = parser.state
           /\ parser.state = IF parser.strict /\ ~http_should_keep_alive(parser)
                             THEN "Dead"
                             ELSE IF parser.tp = "Request" THEN "StartReq"
                             ELSE "StartRes"
    /\ ByteGivenToDead =>
           /\ events = <<>>
           /\ IF input[pos + 1 - ret] \in {CR, LF}
              THEN /\ ret = 1
                   /\ parser = [before EXCEPT !.nread = parser.nread]
              ELSE /\ ret = 0
                   /\ parser = [before EXCEPT !.errno = "ClosedConnection",
                                              !.nread = parser.nread]

\* a strict parser has completed a chunked message with Connection: close at
\* the end of its trailers in Dead, has consumed the CR and LF that followed
\* and has rejected the 'G' after them
C25_Witness ==
    /\ ByteGivenToDead
    /\ Framed.chunked
    /\ Framed.close
    /\ sink.decision = "Nothing"
    /\ Count("on_message_complete") = 1
    /\ pos = Len(input) - 1
    /\ parser.errno = "ClosedConnection"

\* the byte the last call of execute started on
LastByte == IF panicked \/ ret = 0 THEN input[pos + 1] ELSE input[pos]

\* where in the input the byte the last call of execute started on stands
LastByteAt == IF panicked \/ ret = 0 THEN pos + 1 ELSE pos

\* the message fed to the parser
Closing == CHOOSE d \in CloseDescriptors : CloseMessage(d) = input

\* the message carries Connection: close and no Connection: keep-alive that
\* its version honours: an HTTP/1.1 message looks at close only, an HTTP/1.0
\* message at keep-alive only
CloseDecides(d) == d.close /\ ~(d.version = "1.0" /\ d.keepalive)

\* the message permits keep-alive: its end does not depend on the end of the
\* transport, and it is an HTTP/1.1 message without Connection: close or an
\* HTTP/1.0 message with Connection: keep-alive
PermitsKeepAlive(d) ==
    /\ ~EndsByEof(d)
    /\ IF d.version = "1.1" THEN ~d.close ELSE d.keepalive

StartOfClosing == IF Closing.start = "GET" THEN "StartReq" ELSE "StartRes"

\* the last call of execute made on_message_complete as its last callback
CompletedByLastCall ==
    /\ op \in {"execute", "eof"}
    /\ events # <<>>
    /\ LastEvent.k = "on_message_complete"

\* the last call of execute was given a byte that follows the message
ByteAfterMessage ==
    /\ op = "execute"
    /\ lastlen = 1
    /\ before.errno = NoErr
    /\ LastByteAt > Len(CloseProper(Closing))

\* the byte was given to a closed connection: CR and LF are skipped, any
\* other byte is rejected with ClosedConnection
RejectedAsClosed ==
    /\ before.state = "Dead"
    /\ events = <<>>
    /\ IF LastByte \in {CR, LF}
       THEN ret = 1 /\ parser.state = "Dead" /\ parser.errno = NoErr
       ELSE ret = 0 /\ parser.errno = "ClosedConnection"

\* the byte was taken in the start state of the parser's type, and a byte
\* other than CR and LF began the next message
BeginsNextMessage ==
    /\ before.state = StartOfClosing
    /\ LastByte \notin {CR, LF} =>
           /\ ret = 1
           /\ parser.errno = NoErr
           /\ EventKinds = <<"on_message_begin">>
           /\ parser.state \in {"ReqMethod", "ResH"}

\* C26 as stated: after a message that carries Connection: close has
\* completed the parser is in Dead, so that any further byte other than CR
\* and LF is rejected with ClosedConnection; after a message that permits
\* keep-alive it is in the mode's start state.
C26_DeadAfterClose ==
    /\ Closing.close =>
           /\ CompletedByLastCall => parser.state = "Dead"
           /\ ByteAfterMessage => RejectedAsClosed
    /\ PermitsKeepAlive(Closing) =>
           /\ CompletedByLastCall => parser.state = StartOfClosing
           /\ ByteAfterMessage => BeginsNextMessage

\* C26, amended, for the messages that complete inside a chunk (those whose
\* end is not the end of the transport): on a strict parser, after a message
\* with Connection: close has completed the parser is in Dead, so that any
\* further byte other than CR and LF is rejected with ClosedConnection,
\* unless the message is HTTP/1.0 and also carries Connection: keep-alive;
\* on a parser that is not strict a message with Connection: close leaves the
\* parser in its mode's start state and the bytes that follow are parsed as
\* the next message; after a message that permits keep-alive a parser,
\* strict or not, is in its mode's start state.
C26_DeadAfterCloseWhenStrict ==
    ~EndsByEof(Closing) =>
        /\ (parser.strict /\ CloseDecides(Closing)) =>
               /\ CompletedByLastCall => parser.state = "Dead"
               /\ ByteAfterMessage => RejectedAsClosed
        /\ (~parser.strict /\ Closing.close) =>
               /\ CompletedByLastCall => parser.state = StartOfClosing
               /\ ByteAfterMessage => BeginsNextMessage
        /\ PermitsKeepAlive(Closing) =>
               /\ CompletedByLastCall => parser.state = StartOfClosing
               /\ ByteAfterMessage => BeginsNextMessage

\* a strict parser has completed an HTTP/1.1 request with Connection: close
\* and a body of Content-Length 5, has skipped the empty line after it and
\* has rejected the 'G' that followed
C26_Witness ==
    /\ ByteAfterMessage
    /\ parser.strict
    /\ Closing = [start |-> "GET", version |-> "1.1", close |-> TRUE,
                  keepalive |-> FALSE, body |-> "length"]
    /\ Count("on_message_complete") = 1
    /\ before.state = "Dead"
    /\ LastByte = Ord("G")
    /\ parser.errno = "ClosedConnection"
    /\ pos = Len(input) - 1

\* the last call of execute held one byte, consumed it without error and
\* started in the state s
ByteTakenIn(s) ==
    /\ op = "execute"
    /\ lastlen = 1
    /\ ret = 1
    /\ before.errno = NoErr
    /\ parser.errno = NoErr
    /\ before.state = s

\* C27: nread is 0 immediately after the end of a response status line (the
\* transition into HeaderFieldStart), after the LF that ends a chunk-size
\* line, and after the LF of the CRLF that follows chunk data.
C27_NreadZeroAtBoundaries ==
    /\ \A s \in {"ResStatusStart", "ResStatus", "ResLineAlmostDone"} :
           (ByteTakenIn(s) /\ parser.state = "HeaderFieldStart") => parser.nread = 0
    /\ ByteTakenIn("ChunkSizeAlmostDone") => parser.nread = 0
    /\ ByteTakenIn("ChunkDataDone") => parser.nread = 0

\* C28: the header-size budget is per message: whenever a message has
\* completed and the parser is back in a start state, nread is 0, so that
\* the header bytes a following message may use do not depend on the message
\* before it, in particular not on the trailer section of a chunked message.
C28_BudgetPerMessage ==
    (CompletedByLastByte /\ parser.state \in {"StartReq", "StartRes"}) =>
        parser.nread = 0

\* the last call of execute offered one decimal digit of a Content-Length
\* value (base 10) or one hexadecimal digit of a chunk size (base 16) to be
\* appended to content_length
Accumulating(base) ==
    /\ op = "execute"
    /\ lastlen = 1
    /\ before.errno = NoErr
    /\ IF base = 10
       THEN /\ before.state = "HeaderValue"
            /\ before.header_state = "ContentLength"
            /\ is_num(LastByte)
       ELSE /\ before.state = "ChunkSize"
            /\ UNHEX[LastByte + 1] # -1

DigitValue(base) == IF base = 10 THEN LastByte - Ord("0") ELSE UNHEX[LastByte + 1]

\* the call reported an error, or content_length is base * content_length +
\* digit, computed without wraparound and below the sentinel; t is the exact
\* product and sum
ErrorOrExact(t) ==
    \/ parser.errno # NoErr
    \/ /\ ~t.overflow
       /\ parser.content_length = t.v
       /\ U64Lt(t.v, ULLONG_MAX)

\* C29: the accumulation of Content-Length (decimal) and of the chunk size
\* (hexadecimal) never overflows 64-bit arithmetic: for every current
\* content_length and next digit either the parser reports an error, or
\* base * content_length + digit is computed without wraparound and is
\* strictly below the unset sentinel.
C29_AccumulationNeverOverflows ==
    \A base \in {10, 16} :
        Accumulating(base) =>
            /\ ~panicked
            /\ ErrorOrExact(U64MulAdd(before.content_length, base, DigitValue(base)))

\* the last call of execute offered, in one of the given states, a digit that
\* follows at least n other digits
DigitAfter(n, states) ==
    /\ op = "execute"
    /\ lastlen = 1
    /\ before.errno = NoErr
    /\ before.state \in states
    /\ \A i \in 0..n : is_num(input[LastByteAt - i])

\* the digits of a number are appended one by one: v becomes 10 * v + d
Appended(v, w) ==
    (parser.errno = NoErr /\ ~panicked) => w = 10 * v + (LastByte - Ord("0"))

\* C30: a major or minor version component written with three or more
\* digits is rejected with InvalidVersion, and a status code written with
\* four or more digits is rejected with InvalidStatus; consequently major and
\* minor always equal the decimal value of the digits read and lie in 0..99,
\* and status_code lies in 0..999.
C30_VersionAndStatusDigits ==
    /\ ~panicked
    /\ DigitAfter(2, {"ReqHttpMajor", "ReqHttpMinor", "ResHttpMajor", "ResHttpMinor"})
           => parser.errno = "InvalidVersion"
    /\ DigitAfter(3, {"ResStatusCode"}) => parser.errno = "InvalidStatus"
    /\ DigitAfter(1, {"ReqHttpMajor", "ResHttpMajor"})
           => Appended(before.http_version.major, parser.http_version.major)
    /\ DigitAfter(1, {"ReqHttpMinor", "ResHttpMinor"})
           => Appended(before.http_version.minor, parser.http_version.minor)
    /\ parser.http_version.major \in 0..99
    /\ parser.http_version.minor \in 0..99
    /\ parser.status_code \in 0..999

\* the parse of the word has ended: every byte was consumed, or errno is set
WordParsed == pos = Len(input) \/ parser.errno # NoErr

\* the number of bytes of s that begin a method name followed by a space
RECURSIVE NamedUpTo(_, _)
NamedUpTo(s, k) ==
    IF k < Len(s) /\
       \E w \in MethodNames : IsPrefix(SubSeq(s, 1, k + 1), w \o <<SP>>)
    THEN NamedUpTo(s, k + 1)
    ELSE k

\* s without the CR and LF bytes it begins with
RECURSIVE AfterLineEnds(_)
AfterLineEnds(s) ==
    IF s # <<>> /\ Head(s) \in {CR, LF} THEN AfterLineEnds(Tail(s)) ELSE s

\* the dispatch on the word w followed by a space, the parse of the input
\* having skipped `skipped` bytes before it: a method name reaches
\* ReqSpacesBeforeUrl with that method, any other word gives InvalidMethod at
\* the first byte with which it leaves the method names
DispatchedAs(w, skipped) ==
    IF w \in MethodNames
    THEN /\ parser.errno = NoErr
         /\ parser.state = "ReqSpacesBeforeUrl"
         /\ method_to_string[parser.method] = w
    ELSE /\ parser.errno = "InvalidMethod"
         /\ pos = skipped + NamedUpTo(w \o <<SP>>, 0)
         /\ ret = 0

\* C31 as stated: for every byte string w, w followed by a space, fed from
\* StartReq, reaches ReqSpacesBeforeUrl iff w is exactly one of the 27 method
\* names, with method set to it; every other w gives InvalidMethod at the
\* first byte at which w stops being the beginning of a method name.
C31_MethodDispatch ==
    WordParsed => DispatchedAs(SubSeq(input, 1, Len(input) - 1), 0)

\* C31, amended: the same for w taken after the CR and LF bytes the input
\* begins with, which StartReq skips.
C31_MethodDispatchAfterLineEnds ==
    WordParsed =>
        \E w \in {AfterLineEnds(SubSeq(input, 1, Len(input) - 1))} :
            DispatchedAs(w, Len(input) - 1 - Len(w))

\* PROPPATCH has been matched through its pivot from PROPFIND
C31_Witness ==
    /\ WordParsed
    /\ input = method_to_string["PropPatch"] \o <<SP>>
    /\ parser.method = "PropPatch"
    /\ parser.state = "ReqSpacesBeforeUrl"

\* the rows of the URL transition table for the byte ch: the state the row is
\* for, whether ch is of the row's byte class, and the successor
UrlRows(strict, ch) ==
    LET url == is_url_char([strict |-> strict], ch)
        server == {"ReqServerStart", "ReqServer", "ReqServerWithAt"}
        query == {"ReqQueryStringStart", "ReqQueryString"}
    IN {<<"ReqSpacesBeforeUrl", ch \in {Ord("/"), Ord("*")}, "ReqPath">>,
        <<"ReqSpacesBeforeUrl", is_alpha(ch), "ReqSchema">>,
        <<"ReqSchema", is_alpha(ch), "ReqSchema">>,
        <<"ReqSchema", ch = Ord(":"), "ReqSchemaSlash">>,
        <<"ReqSchemaSlash", ch = Ord("/"), "ReqSchemaSlashSlash">>,
        <<"ReqSchemaSlashSlash", ch = Ord("/"), "ReqServerStart">>,
        <<"ReqPath", url, "ReqPath">>,
        <<"ReqPath", ch = Ord("?"), "ReqQueryStringStart">>,
        <<"ReqPath", ch = Ord("#"), "ReqFragmentStart">>,
        <<"ReqFragmentStart", url \/ ch = Ord("?"), "ReqFragment">>,
        <<"ReqFragmentStart", ch = Ord("#"), "ReqFragmentStart">>,
        <<"ReqFragment", url \/ ch \in {Ord("?"), Ord("#")}, "ReqFragment">>}
       \cup {<<s, ch = Ord("/"), "ReqPath">> : s \in server}
       \cup {<<s, ch = Ord("?"), "ReqQueryStringStart">> : s \in server}
       \cup {<<s, ch = Ord("@"), "ReqServerWithAt">> : s \in server}
       \cup {<<s, is_userinfo_char(ch) \/ ch \in {Ord("["), Ord("]")}, "ReqServer">> :
                 s \in server}
       \cup {<<s, url \/ ch = Ord("?"), "ReqQueryString">> : s \in query}
       \cup {<<s, ch = Ord("#"), "ReqFragmentStart">> : s \in query}

\* the successors the table lists for the state s and the byte ch
Listed(strict, s, ch) ==
    {r[3] : r \in {x \in UrlRows(strict, ch) : x[1] = s /\ x[2]}}

\* the successor by the table: Dead on space, CR and LF, on tab and form feed
\* in strict mode, on a second @; the listed successor; Dead when none is
\* listed
ByUrlTable(strict, s, ch, t) ==
    IF ch \in {SP, CR, LF} THEN t = "Dead"
    ELSE IF strict /\ ch \in {TAB, FF} THEN t = "Dead"
    ELSE IF s = "ReqServerWithAt" /\ ch = Ord("@") THEN t = "Dead"
    ELSE IF Listed(strict, s, ch) = {} THEN t = "Dead"
    ELSE Listed(strict, s, ch) = {t}

\* C32: parse_url_char is a pure function of (strict, state, byte) that
\* agrees with the transition table for every URL state and every byte
\* 0..255: space, CR and LF give Dead; tab and form feed give Dead in strict
\* mode; ReqServerWithAt on '@' gives Dead; each listed (state, byte class)
\* pair gives the listed successor and every unlisted pair gives Dead; and no
\* parser field is modified.
C32_UrlTable ==
    op = "parse_url_char" =>
        /\ ByUrlTable(parser.strict, parser.state, input[1], ret)
        /\ parser = before

\* a second @ in the server part of a URL has been answered with Dead
C32_Witness ==
    /\ op = "parse_url_char"
    /\ parser.state = "ReqServerWithAt"
    /\ input = <<Ord("@")>>
    /\ ret = "Dead"

\* the chunk the last call of execute was given
LastChunk ==
    IF panicked THEN SubSeq(input, pos + 1, pos + lastlen)
    ELSE SubSeq(input, pos - ret + 1, pos - ret + lastlen)

\* the marks open in the last call of execute after k iterations of its loop
MarksAfter(k) ==
    IF k = 0 THEN OpenMarks(Locals(before, sink, LastChunk, checked))
    ELSE OpenMarks(Iterate(Locals(before, sink, LastChunk, checked), k))

\* C33: at most one of the five marks (header field, header value, url,
\* status, body) is open at any point of any execute call, for every input,
\* every chunking and both strictness settings; in particular the assertion
\* on the marks at the exit of the loop never fails.
C33_AtMostOneMark ==
    (op = "execute" /\ lastlen > 0 /\ before.errno = NoErr) =>
        /\ \A k \in 0..lastlen : Cardinality(MarksAfter(k)) <= 1
        /\ ~panicked

\* a call that started inside a status text, with the status mark
\* pre-seeded, has closed that mark at the end of the line and left the body
\* mark open when its chunk ran out
C33_Witness ==
    /\ op = "execute"
    /\ lastlen > 0
    /\ before.state = "ResStatus"
    /\ parser.state = "BodyIdentityEof"
    /\ parser.errno = NoErr
    /\ MarksAfter(0) = {5}
    /\ \E k \in 1..lastlen : MarksAfter(k) = {}
    /\ MarksAfter(lastlen) = {4}

\* the value of the Content-Length header of the request fed
LengthValue == CHOOSE v \in LengthValues : input = LengthRequest(v)

\* v without the spaces it ends with
RECURSIVE WithoutTrailingSpaces(_)
WithoutTrailingSpaces(v) ==
    IF v # <<>> /\ v[Len(v)] = SP
    THEN WithoutTrailingSpaces(SubSeq(v, 1, Len(v) - 1))
    ELSE v

IsDigitRun(v) == v # <<>> /\ \A i \in 1..Len(v) : is_num(v[i])

\* the decimal value of a run of digits
RECURSIVE DecimalValue(_)
DecimalValue(v) ==
    IF v = <<>> THEN 0
    ELSE 10 * DecimalValue(SubSeq(v, 1, Len(v) - 1)) + (v[Len(v)] - Ord("0"))

\* C34: a Content-Length value must be a run of decimal digits optionally
\* followed only by trailing spaces: any other byte, including a digit after
\* a space that followed the digits ("1 2"), is rejected with
\* InvalidContentLength; on acceptance content_length is the decimal value of
\* the digit run.
C34_ContentLengthSyntax ==
    WordParsed =>
        IF IsDigitRun(WithoutTrailingSpaces(LengthValue))
        THEN /\ parser.errno = NoErr
             /\ parser.content_length = U64(DecimalValue(WithoutTrailingSpaces(LengthValue)))
        ELSE parser.errno = "InvalidContentLength"

\* the header of the request fed
FlagCase == CHOOSE d \in FlagCases : input = FlagRequest(d)

\* s with its upper-case letters replaced by the lower-case ones
Lowered(s) ==
    [i \in 1..Len(s) |->
        IF s[i] \in Ord("A")..Ord("Z") THEN s[i] + 32 ELSE s[i]]

FramingFlags == {"CONNECTION_KEEP_ALIVE", "CONNECTION_CLOSE", "CHUNKED"}

Folded(v) == \E i \in 1..Len(v) : v[i] = LF

\* the framing flags of a header with the name n and the value v
FlagsByLine(n, v) ==
    IF Folded(v) THEN {}
    ELSE LET w == Lowered(WithoutTrailingSpaces(v))
         IN IF Lowered(n) \in {CONNECTION, PROXY_CONNECTION} /\ w = KEEP_ALIVE
            THEN {"CONNECTION_KEEP_ALIVE"}
            ELSE IF Lowered(n) \in {CONNECTION, PROXY_CONNECTION} /\ w = CLOSE
            THEN {"CONNECTION_CLOSE"}
            ELSE IF Lowered(n) = TRANSFER_ENCODING /\ w = CHUNKED
            THEN {"CHUNKED"}
            ELSE {}

\* the byte after the header's LF has been taken without an error
HeaderLineEnded == pos > Len(FlagLine(FlagCase)) /\ parser.errno = NoErr

\* C35: a framing flag (CONNECTION_KEEP_ALIVE, CONNECTION_CLOSE, CHUNKED) is
\* set iff the header's name equals Connection or Proxy-Connection (resp.
\* Transfer-Encoding) and its entire value equals keep-alive or close (resp.
\* chunked), both case-insensitively, the value ignoring trailing spaces;
\* names or values that start with, contain or extend a keyword, and folded
\* values, set no flag; no flag is set before the byte after the header's LF
\* has been taken.
C35_FramingFlagsOfWholeLines ==
    IF HeaderLineEnded
    THEN parser.flags \cap FramingFlags =
             FlagsByLine(FlagCase.name, FlagCase.value)
    ELSE parser.flags \cap FramingFlags = {}

\* C35, amended: as above, with the header's name compared ignoring the
\* spaces it ends with (a name can end with spaces only when the parser is
\* not strict).
C35_FramingFlagsIgnoringNameSpaces ==
    IF HeaderLineEnded
    THEN parser.flags \cap FramingFlags =
             FlagsByLine(WithoutTrailingSpaces(FlagCase.name), FlagCase.value)
    ELSE parser.flags \cap FramingFlags = {}

\* the byte after the line end of "Proxy-Connection: close  " has just set
\* CONNECTION_CLOSE
C35_Witness ==
    /\ op = "execute"
    /\ before.state = "HeaderValueLws"
    /\ before.flags = {}
    /\ parser.flags = {"CONNECTION_CLOSE"}
    /\ HeaderLineEnded
    /\ Lowered(FlagCase.name) = PROXY_CONNECTION
    /\ FlagCase.value = CLOSE \o <<SP, SP>>

\* the states in which the bytes of a body are taken
BodyStates ==
    {"ChunkSizeStart", "ChunkSize", "ChunkParameters", "ChunkSizeAlmostDone",
     "ChunkData", "ChunkDataAlmostDone", "ChunkDataDone", "BodyIdentity",
     "BodyIdentityEof", "MessageDone"}

\* the last call of execute was given the byte that follows the header section
AfterHeaders ==
    /\ op = "execute"
    /\ lastlen = 1
    /\ before.errno = NoErr
    /\ LastByteAt = Len(FramingHeaders(Framed)) + 1

\* with SkipBody the message completes on the LF that ends its headers:
\* SKIPBODY is set, on_message_complete follows on_headers_complete in the
\* call that takes that LF, no on_body is ever made and no byte is ever taken
\* in a body state
SkippedAtHeaders ==
    /\ Count("on_body") = 0
    /\ (op = "execute" /\ before.errno = NoErr) =>
           before.state \notin BodyStates
    /\ AtEndOfHeaders =>
           /\ "SKIPBODY" \in parser.flags
           /\ EventKinds = <<"on_headers_complete", "on_message_complete">>
           /\ LastByte = LF
    /\ AfterHeaders => "SKIPBODY" \in before.flags

\* the state in which the type of the message fed starts a message
StartOfFramed == IF IsRequest(Framed) THEN "StartReq" ELSE "StartRes"

\* the byte that follows the header section was taken as the start of a
\* message: a byte other than CR and LF, here the first byte of the body the
\* headers announced, is refused as a method or as the constant "HTTP"
TakenAsNextMessage ==
    /\ before.state = StartOfFramed
    /\ LastByte \notin {CR, LF} =>
           /\ parser.errno \in {"InvalidMethod", "InvalidConstant"}
           /\ ret = 0

\* the byte that follows the header section was given to a closed
\* connection: CR and LF are skipped, any other byte is refused
TakenAsClosed ==
    /\ before.state = "Dead"
    /\ events = <<>>
    /\ IF LastByte \in {CR, LF}
       THEN ret = 1 /\ parser.state = "Dead" /\ parser.errno = NoErr
       ELSE ret = 0 /\ parser.errno = "ClosedConnection"

\* C36 as stated: when on_headers_complete answers SkipBody, the SKIPBODY
\* flag is set and the message completes at the end of its header section:
\* on_message_complete is made on the LF that ends the headers, no on_body is
\* made, even with a Content-Length of 5 or Transfer-Encoding: chunked, and
\* the bytes that follow are parsed as the start of the next message.
C36_SkipBodyThenNextMessage ==
    sink.decision = "SkipBody" =>
        /\ SkippedAtHeaders
        /\ AtEndOfHeaders => parser.state = StartOfFramed
        /\ AfterHeaders => TakenAsNextMessage

\* C36, amended: as above, except that the bytes that follow are parsed as
\* the start of the next message only if the parser is not strict or the
\* message is a keep-alive one (HTTP/1.1 without Connection: close); a
\* strict parser that has seen an HTTP/1.1 message with Connection: close is
\* in Dead after the LF, where CR and LF are skipped and any other byte is
\* refused with ClosedConnection.
C36_SkipBodyCompletesAtHeaders ==
    sink.decision = "SkipBody" =>
        /\ SkippedAtHeaders
        /\ AtEndOfHeaders =>
               parser.state = IF parser.strict /\ Framed.close THEN "Dead"
                              ELSE StartOfFramed
        /\ AfterHeaders =>
               IF before.strict /\ Framed.close THEN TakenAsClosed
               ELSE TakenAsNextMessage

\* after a 200 response with Content-Length: 5 and Transfer-Encoding: chunked
\* whose body was skipped, the "5" of the chunk size was taken as the first
\* byte of a response and refused
C36_Witness ==
    /\ sink.decision = "SkipBody"
    /\ AfterHeaders
    /\ Framed.start = "200"
    /\ Framed.chunked
    /\ Framed.length = "5"
    /\ ~Framed.close
    /\ before.state = "StartRes"
    /\ LastByte = Ord("5")
    /\ parser.errno = "InvalidConstant"
    /\ Count("on_message_complete") = 1

\* C37: no assertion inside execute fails, whatever the input, the chunking,
\* the callback outcomes, the pauses and the strictness: the assertions on
\* nread, on the CHUNKED flag and on content_length in the chunk and body
\* states, the assertion that errno is unset before a callback, the
\* assert!(false) of HeaderField and HeaderValue and the assertion on the
\* marks at the end of the call all hold, so that no call of execute panics.
C37_NoAssertionFails ==
    op \in {"execute", "eof"} => ~panicked

\* one call took the three bytes of the chunk-size line "5" CR LF, through
\* ChunkSizeStart (entered with nread = 0), ChunkSize and ChunkSizeAlmostDone
C37_Witness ==
    /\ op = "execute"
    /\ ~panicked
    /\ lastlen = 3
    /\ before.state = "ChunkSizeStart"
    /\ before.nread = 0
    /\ "CHUNKED" \in before.flags
    /\ parser.state = "ChunkData"
    /\ parser.content_length = U64(5)

\* the locals of the last call of execute after k iterations of its loop
LocalsAfter(k) ==
    IF k = 0 THEN Locals(before, sink, LastChunk, checked)
    ELSE Iterate(Locals(before, sink, LastChunk, checked), k)

\* the most re-executions of one byte
MaxRetries == 3

\* a rank of the states that every re-execution increases
RetryRank(s) ==
    CASE s \in {"HeaderValueStart", "HeaderFieldStart", "HeaderAlmostDone",
                "StartReq", "MessageDone"} -> 1
      [] s = "HeadersAlmostDone" -> 2
      [] s = "HeadersDone" -> 3
      [] OTHER -> 0

\* the byte ch, dispatched with the locals c, is re-executed at most fuel
\* times, each time in a state of a higher rank
RECURSIVE RetriesBounded(_, _, _)
RetriesBounded(c, ch, fuel) ==
    \E d \in {Dispatch([c EXCEPT !.retry = FALSE], ch)} :
        (Running(d) /\ d.retry) =>
            /\ fuel > 0
            /\ RetryRank(d.p.state) > RetryRank(c.p.state)
            /\ RetriesBounded(d, ch, fuel - 1)

\* the iteration of the loop that starts with the locals c ends the call or
\* leaves a greater index, and re-executes its byte a bounded number of times
IterationAdvances(c) ==
    (Running(c) /\ c.index < Len(c.data)) =>
        /\ \E d \in {ByteStep(c)} : Running(d) => d.index > c.index
        /\ RetriesBounded(IF ParsingHeader(c.p.state)
                          THEN [c EXCEPT !.p.nread = @ + 1] ELSE c,
                          c.data[c.index + 1], MaxRetries)

\* C38: every call of execute terminates: each iteration of the outer loop
\* that does not end the call leaves the index greater than it found it, the
\* skipping of body bytes included, so that a chunk of n bytes takes at most
\* n iterations; and a byte is re-executed at most MaxRetries times, each
\* time in a state of a higher rank, so that no cycle of re-executions exists.
C38_ExecuteTerminates ==
    (op = "execute" /\ lastlen > 0 /\ before.errno = NoErr) =>
        /\ \A k \in 0..(lastlen - 1) : IterationAdvances(LocalsAfter(k))
        /\ \E c \in {LocalsAfter(lastlen)} :
               ~Running(c) \/ c.index >= lastlen

\* the first iteration of a call given three bytes of a Content-Length body
\* skipped to the last of them, and that byte was re-executed in MessageDone
C38_Witness ==
    /\ op = "execute"
    /\ lastlen = 3
    /\ before.errno = NoErr
    /\ before.state = "BodyIdentity"
    /\ before.content_length = U64(3)
    /\ LocalsAfter(1).index = 3
    /\ parser.state \in StartStates
    /\ EventKinds = <<"on_body", "on_message_complete">>

\* the states in which the name of a header has been given, wholly or in
\* part, to on_header_field and none of its value to on_header_value
ValueOwed ==
    {"HeaderField", "HeaderValueDiscardWs", "HeaderValueDiscardWsAlmostDone",
     "HeaderValueDiscardLws"}

\* the callbacks ev[i..] keep the alternation; owed tells whether the header
\* whose name was last delivered still waits for its first on_header_value,
\* and more tells whether an on_header_field may continue that name
RECURSIVE Alternates(_, _, _, _)
Alternates(ev, i, owed, more) ==
    IF i > Len(ev) THEN TRUE
    ELSE IF ev[i].k = "on_header_field"
    THEN (~owed \/ more) /\ Alternates(ev, i + 1, TRUE, FALSE)
    ELSE IF ev[i].k = "on_header_value"
    THEN Alternates(ev, i + 1, FALSE, FALSE)
    ELSE IF ev[i].k \in {"on_headers_complete", "on_message_complete"}
    THEN ~owed /\ Alternates(ev, i + 1, FALSE, FALSE)
    ELSE Alternates(ev, i + 1, owed, FALSE)

\* whether, after the callbacks ev[i..], the header whose name was last
\* delivered still waits for its first on_header_value
RECURSIVE OwedAfter(_, _, _)
OwedAfter(ev, i, owed) ==
    IF i > Len(ev) THEN owed
    ELSE IF ev[i].k = "on_header_field" THEN OwedAfter(ev, i + 1, TRUE)
    ELSE IF ev[i].k = "on_header_value" THEN OwedAfter(ev, i + 1, FALSE)
    ELSE OwedAfter(ev, i + 1, owed)

\* C39: in the callbacks of a header or trailer section, under any chunking,
\* the on_header_field callbacks of one header are followed by at least one
\* on_header_value (with an empty slice when the value is empty) before the
\* first on_header_field of the next header, before on_headers_complete and
\* before on_message_complete.
C39_HeaderCallbacksAlternate ==
    (op = "execute" /\ before.errno = NoErr) =>
        /\ Alternates(events, 1, before.state \in ValueOwed,
                      before.state = "HeaderField")
        /\ (parser.errno = NoErr /\ ~panicked) =>
               (OwedAfter(events, 1, before.state \in ValueOwed)
                    <=> parser.state \in ValueOwed)

\* a call that began after the name of a header with an empty value had been
\* delivered made on_header_value with an empty slice before the
\* on_header_field of the next header
C39_Witness ==
    /\ op = "execute"
    /\ input = EmptyValues
    /\ before.state = "HeaderValueDiscardLws"
    /\ Len(events) = 2
    /\ events[1].k = "on_header_value"
    /\ events[1].d = <<>>
    /\ events[2].k = "on_header_field"
    /\ events[2].d = B(<<"B">>)

\* the inputs whose message has a body framed by Content-Length, and the
\* length they declare
LengthFramed == ContentLengthInputs \cup {ContentLengthResponse}

DeclaredLength ==
    IF input = ContentLengthResponse THEN 5
    ELSE CHOOSE n \in BodyLengths :
             input \in {ContentLengthRequest(n), ContentLengthReply(n)}

\* the number of body bytes delivered so far, by the earlier calls and by the
\* callbacks 1..i of the last call
DeliveredThrough(i) ==
    Len(BodyBytes(log)) - Len(BodyBytes(SubSeq(events, i + 1, Len(events))))

\* what http_body_is_final answers inside the i-th callback of the last call
FinalDuring(i) ==
    http_body_is_final([before EXCEPT !.state = events[i].state])

\* C40: http_body_is_final is false whenever execute has returned without
\* error; inside an on_body callback it is true exactly when the callback
\* delivers the last bytes of a body framed by Content-Length, and false in
\* every on_body callback of a chunked or EOF-terminated body.
C40_BodyIsFinal ==
    /\ (op \in {"execute", "eof"} /\ parser.errno = NoErr /\ ~panicked) =>
           ~http_body_is_final(parser)
    /\ \A i \in 1..Len(events) :
           events[i].k = "on_body" =>
               (FinalDuring(i) <=>
                   (input \in LengthFramed /\ DeliveredThrough(i) = DeclaredLength))

\* a call delivered the last two bytes of a body of Content-Length 12 whose
\* first bytes earlier calls had delivered: http_body_is_final was true inside
\* its on_body
C40_Witness ==
    /\ op = "execute"
    /\ input = ContentLengthReply(LongBodyLen)
    /\ before.state = "BodyIdentity"
    /\ before.content_length = U64(2)
    /\ events # <<>>
    /\ events[1].k = "on_body"
    /\ Len(events[1].d) = 2
    /\ FinalDuring(1)
    /\ parser.errno = NoErr
    /\ ~http_body_is_final(parser)

====
